---- MODULE Spec2Model ----
(***************************************************************************)
(* Reset-time scanner of DevCodeRift/spy: the NationScanner orchestrator   *)
(* (start / stop / performScan / processResults / recordResetTime), its    *)
(* storage tables (nations, scan_history, reset_times, error_logs) and the *)
(* hourly timer, as a state machine.  Every await in the code is a point   *)
(* where other callbacks may run, so each awaited storage or provider call *)
(* is one step of the cycle that makes it.                                 *)
(***************************************************************************)
EXTENDS Integers, Sequences, FiniteSets, TLC

\* ------------------------------------------------------------ bounds
NumNations == 1
MaxCycles == 2
MaxTime == 2
MaxFaults == 2
\* largest candidate set of which every ordering is enumerated
MaxOrdered == 3

\* ------------------------------------------------- program constants
\* setInterval period, in clock ticks (one tick = one hour)
ScanIntervalTicks == 1
\* INTERVAL '7 days', in clock ticks
ActiveWindow == 168
\* LIMIT 5000
ScanLimit == 5000
\* length of a day in clock ticks: toTimeString() keeps the time of day only
DayTicks == 24

Nations == 1..NumNations

\* the scanner is constructed one hour before midnight
StartTime == DayTicks - 1

VARIABLES
    isScanning,         \* NationScanner.isScanning
    scanInterval,       \* NationScanner.scanInterval: 0 (null) or a timer handle
    timers,             \* every interval timer ever created by setInterval
    cycles,             \* every performScan() invocation and where it stands
    nations,            \* table nations: id -> last_active
    scan_history,       \* table scan_history, in insertion order
    reset_times,        \* table reset_times, in insertion order
    error_logs,         \* table error_logs: number of SCAN_CYCLE_ERROR rows
    alreadyRunningLogged, \* logger.warn('Scanner already running') was written
    faults,             \* storage queries that have failed so far
    now,                \* the wall clock
    rateLimiter,        \* PnWApiClient.rateLimiter: remaining, resetTime, limit
    clock,              \* Date.now() as the API client reads it, in milliseconds
    fetch,              \* the fetch operation of the API client that is in flight
    requests,           \* every network call the API client has made, in order
    logged,             \* logger.error calls made by the fetch operations
    main,               \* index.js: where start() and the SIGTERM handler stand
    boot,               \* the initializeNations() call and where it stands
    reply,              \* the last answer of the HTTP routes or of the chat bot
    skipped             \* nations that matched the WHERE clause of a candidate
                        \* query which did not return them, and that no later
                        \* candidate query has returned

\* the state of the API client and its rate limiter
client == <<rateLimiter, clock, fetch, requests, logged>>

\* the process entry point, the bootstrap, the presentation layer and the
\* record of skipped nations
aside == <<main, boot, reply, skipped>>

vars == <<isScanning, scanInterval, timers, cycles, nations, scan_history,
          reset_times, error_logs, alreadyRunningLogged, faults, now, client,
          aside>>

storage == <<nations, scan_history, reset_times, error_logs>>

\* ------------------------------------------------------------ helpers
Max(S) == CHOOSE x \in S : \A y \in S : y <= x

\* Date.toTimeString().split(' ')[0]: the HH:MM:SS part, the date is dropped
TimeOfDay(t) == t % DayTicks

\* the last_active values a provider or an import can report at a given time:
\* active just now, or last active exactly one window ago (no longer recent)
LastActiveChoices(t) == {t, t - ActiveWindow}

\* rows of reset_times for one nation
ResetRowsOf(n) == {k \in 1..Len(reset_times) : reset_times[k].nation_id = n}

HasResetRow(n) == ResetRowsOf(n) # {}

\* indexes of the scan_history rows of one nation
ScanRowsOf(n) == {k \in 1..Len(scan_history) : scan_history[k].nation_id = n}

\* SELECT ... FROM scan_history WHERE nation_id = $1 ORDER BY scanned_at DESC
\* LIMIT 1: the rows this query may return (rows with equal scanned_at are
\* returned in no defined order)
LastScanRows(n) ==
    IF ScanRowsOf(n) = {} THEN {<<>>}
    ELSE LET top == Max({scan_history[k].scanned_at : k \in ScanRowsOf(n)})
         IN  {<<scan_history[k]>> : k \in {j \in ScanRowsOf(n) :
                                             scan_history[j].scanned_at = top}}

\* faulty variant: the join with reset_times is left out of the query
Eligible_IgnoreResets == {n \in DOMAIN nations : nations[n] > now - ActiveWindow}

\* WHERE rt.id IS NULL AND n.last_active > NOW() - INTERVAL '7 days'
Eligible == {n \in DOMAIN nations : ~HasResetRow(n) /\ nations[n] > now - ActiveWindow}

\* the ids of the nations table in id order (the table holds the ids 1..N)
Rows == [k \in 1..Cardinality(DOMAIN nations) |-> k]

Reverse(s) == [k \in 1..Len(s) |-> s[Len(s) + 1 - k]]

\* a set ordered by last_active DESC, nations of equal last_active by id,
\* upwards or downwards
RECURSIVE Tiered(_, _)
Tiered(S, up) ==
    IF S = {} THEN <<>>
    ELSE LET v == Max({nations[n] : n \in S})
             tier == {n \in S : nations[n] = v}
             byId == SelectSeq(Rows, LAMBDA n : n \in tier)
         IN  (IF up THEN byId ELSE Reverse(byId)) \o Tiered(S \ tier, up)

\* all orderings of a set by last_active DESC (ties in no defined order); of
\* a set of more than MaxOrdered nations only the two orderings that take
\* nations of equal last_active in id order, upwards or downwards
OrderedByRecency(S) ==
    IF Cardinality(S) <= MaxOrdered
    THEN {s \in [1..Cardinality(S) -> S] :
            /\ \A a, b \in 1..Cardinality(S) : a # b => s[a] # s[b]
            /\ \A a, b \in 1..Cardinality(S) :
                  a < b => nations[s[a]] >= nations[s[b]]}
    ELSE {Tiered(S, up) : up \in BOOLEAN}

Take(s, k) == IF Len(s) <= k THEN s ELSE SubSeq(s, 1, k)

\* the ids of a list
Range(ids) == {ids[k] : k \in DOMAIN ids}

\* the record of skipped nations after a candidate query has returned ids
Skip(ids) == (skipped \cup Eligible) \ Range(ids)

\* getNationsToScan: the id lists the query may return
getNationsToScan == {Take(s, ScanLimit) : s \in OrderedByRecency(Eligible)}

\* ------------------------------------------------------ provider side
\* const batchSize = 100
batchSize == 100

\* faulty variant: the loop runs while a full slice is left, a shorter rest of
\* the list is dropped
RECURSIVE Batches_FullOnly(_)
Batches_FullOnly(ids) ==
    IF Len(ids) < batchSize THEN <<>>
    ELSE <<SubSeq(ids, 1, batchSize)>>
            \o Batches_FullOnly(SubSeq(ids, batchSize + 1, Len(ids)))

\* nationIds.slice(i, i + batchSize) for i = 0, batchSize, ...
RECURSIVE Batches(_)
Batches(ids) ==
    IF Len(ids) = 0 THEN <<>>
    ELSE IF Len(ids) <= batchSize THEN <<ids>>
    ELSE <<SubSeq(ids, 1, batchSize)>> \o Batches(SubSeq(ids, batchSize + 1, Len(ids)))

\* what the provider may answer to one "fetch by id list" request: rows for
\* any part of the requested ids, in request order, each with the current
\* flag and last-activity time of that nation
RECURSIVE ProviderRows(_)
ProviderRows(batch) ==
    IF Len(batch) = 0 THEN {<<>>}
    ELSE LET rest == ProviderRows(Tail(batch))
             rows == {[id |-> Head(batch), espionage_available |-> f, last_active |-> a] :
                         f \in BOOLEAN, a \in LastActiveChoices(now)}
         IN  rest \cup {<<r>> \o t : r \in rows, t \in rest}

\* fetchSpecificNations: the results of the sub-batches that succeed,
\* concatenated in order; a failing sub-batch contributes nothing
RECURSIVE BatchResults(_)
BatchResults(batches) ==
    IF Len(batches) = 0 THEN {<<>>}
    ELSE LET rest == BatchResults(Tail(batches))
         IN  {h \o t : h \in ({<<>>} \cup ProviderRows(Head(batches))), t \in rest}

fetchSpecificNations(nationIds) == BatchResults(Batches(nationIds))

\* ------------------------------------------------------- scan cycles
\* resetTime before recordResetTime has read the clock
NoTime == 0 - 1

NewCycle(kind, t) ==
    [kind |-> kind, timer |-> t, pc |-> "select", ids |-> <<>>, results |-> <<>>,
     i |-> 0, lastScan |-> <<>>, row |-> 0, resetTime |-> NoTime, recErr |-> FALSE]

\* the nation a cycle is processing in the loop of processResults
Nation(c) == cycles[c].results[cycles[c].i]

InLoop(c) == cycles[c].pc \in {"read", "insert", "record", "update"}

\* performScan returns; for the initial scan, start() resumes after its await
\* and creates the hourly timer
EndScan(c) ==
    /\ cycles' = [cycles EXCEPT ![c] =
                    [NewCycle(cycles[c].kind, cycles[c].timer) EXCEPT !.pc = "done"]]
    /\ IF cycles[c].kind = "initial"
       THEN /\ timers' = Append(timers, [live |-> TRUE, owner |-> c,
                                         due |-> now + ScanIntervalTicks])
            /\ scanInterval' = Len(timers) + 1
       ELSE UNCHANGED <<timers, scanInterval>>

\* faulty variant: the loop looks at isScanning and breaks once stop() was called
NextNation_StopsWhenIdle(c) ==
    IF cycles[c].i < Len(cycles[c].results) /\ isScanning
    THEN /\ cycles' = [cycles EXCEPT ![c].i = @ + 1, ![c].pc = "read",
                                     ![c].lastScan = <<>>, ![c].row = 0,
                                     ![c].resetTime = NoTime, ![c].recErr = FALSE]
         /\ UNCHANGED <<timers, scanInterval>>
    ELSE EndScan(c)

\* the for loop of processResults moves to the next nation, or ends
NextNation(c) ==
    IF cycles[c].i < Len(cycles[c].results)
    THEN /\ cycles' = [cycles EXCEPT ![c].i = @ + 1, ![c].pc = "read",
                                     ![c].lastScan = <<>>, ![c].row = 0,
                                     ![c].resetTime = NoTime, ![c].recErr = FALSE]
         /\ UNCHANGED <<timers, scanInterval>>
    ELSE EndScan(c)

\* faulty variant: the transition is tested the wrong way round (true -> false)
ResetDetected_Inverted(lastScan, nation) ==
    /\ Len(lastScan) > 0
    /\ lastScan[1].espionage_available
    /\ ~nation.espionage_available

\* faulty variant: every observation with flag true counts as a reset
ResetDetected_FlagOnly(lastScan, nation) == nation.espionage_available

\* faulty variant: the flag of the prior scan is not looked at
ResetDetected_AnyPrior(lastScan, nation) ==
    /\ Len(lastScan) > 0
    /\ nation.espionage_available

\* faulty variant: a missing prior scan counts as a prior flag of false
ResetDetected_NoBaseline(lastScan, nation) ==
    /\ Len(lastScan) = 0 \/ ~lastScan[1].espionage_available
    /\ nation.espionage_available

\* if (lastScan.rows.length > 0 && !lastScan.rows[0].espionage_available &&
\*     nation.espionage_available)
ResetDetected(lastScan, nation) ==
    /\ Len(lastScan) > 0
    /\ ~lastScan[1].espionage_available
    /\ nation.espionage_available

\* faulty variant: the row is stamped with the provider's last-activity time
InsertScan_ProviderTime(nation) ==
    Append(scan_history, [nation_id |-> nation.id,
                          espionage_available |-> nation.espionage_available,
                          scanned_at |-> nation.last_active])

\* INSERT INTO scan_history (nation_id, espionage_available): scanned_at is
\* CURRENT_TIMESTAMP
InsertScan(nation) ==
    Append(scan_history, [nation_id |-> nation.id,
                          espionage_available |-> nation.espionage_available,
                          scanned_at |-> now])

\* faulty variant: a plain INSERT on a table without the UNIQUE(nation_id) constraint
UpsertReset_PlainInsert(nationId, timeOnly, resetTime) ==
    Append(reset_times, [nation_id |-> nationId, reset_time |-> timeOnly,
                         detected_at |-> resetTime])

\* faulty variant: ON CONFLICT (nation_id) DO NOTHING
UpsertReset_DoNothing(nationId, timeOnly, resetTime) ==
    IF HasResetRow(nationId)
    THEN reset_times
    ELSE Append(reset_times, [nation_id |-> nationId, reset_time |-> timeOnly,
                              detected_at |-> resetTime])

\* INSERT INTO reset_times ... ON CONFLICT (nation_id) DO UPDATE SET
\* reset_time = $2, detected_at = $3
UpsertReset(nationId, timeOnly, resetTime) ==
    IF HasResetRow(nationId)
    THEN [k \in 1..Len(reset_times) |->
            IF reset_times[k].nation_id = nationId
            THEN [reset_times[k] EXCEPT !.reset_time = timeOnly, !.detected_at = resetTime]
            ELSE reset_times[k]]
    ELSE Append(reset_times, [nation_id |-> nationId, reset_time |-> timeOnly,
                              detected_at |-> resetTime])

\* -------------------------------------------------------- rate limiter
\* this.remaining = 1000 and this.limit = 1000 in the RateLimiter constructor
initialRemaining == 1000
\* this.minBuffer = 10
minBuffer == 10
\* rateLimitInfo.reset * 1000: seconds to milliseconds
MsPerSecond == 1000
\* error.response.headers['x-ratelimit-resetafter'] || 60
defaultRetryAfter == 60

\* parseInt of a header that is missing or not a number
NotANumber == 0 - 2

\* if (x) for a number or null: null, 0 and NaN are falsy
Truthy(x) == x \notin {NoTime, NotANumber, 0}

\* x <= y in JavaScript: false when either side is NaN
LessEq(x, y) == x # NotANumber /\ y # NotANumber /\ x <= y

\* x * 1000 in JavaScript: NaN stays NaN
ToMs(x) == IF x = NotANumber THEN NotANumber ELSE x * MsPerSecond

\* new RateLimiter()
NewRateLimiter ==
    [remaining |-> initialRemaining, resetTime |-> NoTime, limit |-> initialRemaining]

\* RateLimiter.update(rateLimitInfo)
update(rateLimitInfo) ==
    [remaining |-> rateLimitInfo.remaining,
     resetTime |-> ToMs(rateLimitInfo.reset),
     limit |-> rateLimitInfo.limit]

\* faulty variant: the buffer is taken as exhausted only at remaining = 0
MustWait_AtZero(rl, t) ==
    /\ LessEq(rl.remaining, 0)
    /\ Truthy(rl.resetTime)
    /\ rl.resetTime - t > 0

\* waitIfNeeded: the two conditions under which it sleeps, at clock value t
MustWait(rl, t) ==
    /\ LessEq(rl.remaining, minBuffer)
    /\ Truthy(rl.resetTime)
    /\ rl.resetTime - t > 0

\* ---------------------------------------------------------- API client
\* bounds of the client specification: sub-batches per id list, network
\* calls per request, seconds the clock may advance on its own
MaxBatches == 3
MaxAttempts == 3
MaxSeconds == 1

\* the client is constructed one second after the epoch
StartClock == MsPerSecond

\* lengths of the id lists handed to fetchSpecificNations: at and just above
\* every multiple of the sub-batch size
IdCounts ==
    {k * batchSize + d : k \in 0..(MaxBatches - 1), d \in {0, 1, batchSize}}

\* an id list of length n (ids in descending order, so that an id is never
\* its own position)
IdList(n) == [k \in 1..n |-> n + 1 - k]

\* response.data.data.nations.data when the provider answers for every id
ApiRows(batch) ==
    [k \in 1..Len(batch) |->
        [id |-> batch[k], espionage_available |-> batch[k] % 2 = 1,
         last_active |-> StartTime]]

\* x-ratelimit-remaining / -reset / -limit of a response received at clock t,
\* after parseInt: the remaining quota at or just above the buffer, the reset
\* epoch (seconds) missing or one second ahead
Headers(t) ==
    {[remaining |-> r, reset |-> x, limit |-> initialRemaining] :
        r \in {minBuffer, minBuffer + 1},
        x \in {NotANumber, t \div MsPerSecond + 1}}

\* retryAfter: the 429 responses carry no x-ratelimit-resetafter, so the
\* default applies
RetryAfterChoices == {defaultRetryAfter}

\* the x-ratelimit-resetafter header of a 429 response, in seconds: absent
\* (NoTime), "0" or "1"
RetryAfterHeaders == {NoTime, 0, 1}

\* faulty variant: without the header the request is sent again at once
RetryDelay_NoDefault(header) == IF header = NoTime THEN 0 ELSE header

\* error.response.headers['x-ratelimit-resetafter'] || 60 (a header that is
\* present is a non-empty string, "0" included, and is truthy)
RetryDelay(header) == IF header = NoTime THEN defaultRetryAfter ELSE header

\* no response with rate-limit headers has been handled
NoHeaders == [remaining |-> NoTime, reset |-> NoTime, limit |-> NoTime]

\* no fetch operation has been called (headers: the rate-limit headers of the
\* last response that reached RateLimiter.update; replaced: the limiter state
\* that update overwrote; inflight: the sub-batches whose request was sent and
\* has no response yet; throttledAt, retryAfter: when the last 429 response
\* arrived and its x-ratelimit-resetafter header, while its re-send is due)
NoFetch ==
    [op |-> "none", pc |-> "idle", nationIds |-> <<>>, batches |-> <<>>, b |-> 0,
     results |-> <<>>, attempts |-> 0, waited |-> FALSE, wakeAt |-> NoTime,
     response |-> "none", pushed |-> {}, failed |-> {},
     headers |-> NoHeaders, replaced |-> NewRateLimiter, inflight |-> {},
     throttledAt |-> NoTime, retryAfter |-> NoTime]

\* new PnWApiClient(), nothing called yet
ClientIdle ==
    /\ rateLimiter = NewRateLimiter
    /\ clock = StartClock
    /\ fetch = NoFetch
    /\ requests = <<>>
    /\ logged = 0

\* ----------------------------------------------------------- bootstrap
\* cursor = null: no resumption token
NoToken == [head |-> "null", tail |-> <<>>, padded |-> TRUE]

\* no page has been received
NoPage == [data |-> <<>>, hasNextPage |-> FALSE, endCursor |-> NoToken]

\* initializeNations() has not been called (sent: the after variable of every
\* page request; got: the endCursor of every page received; outcome: how the
\* last call of fetchNationsBatch ended)
NoBoot ==
    [pc |-> "idle", cursor |-> NoToken, hasMore |-> FALSE, totalNations |-> 0,
     response |-> NoPage, k |-> 0, sent |-> <<>>, got |-> <<>>,
     outcome |-> "none"]

\* no request has been answered
NoReply == [handler |-> "none", status |-> 0, rows |-> <<>>, served |-> 0]

\* index.js as a module that exports nothing here: start() of index.js is not
\* followed and no signal arrives (count: the answer of SELECT COUNT(*);
\* code: the exit code of the process)
NoMain == [pc |-> "none", count |-> NoTime, signal |-> "none", closed |-> FALSE,
           code |-> NoTime]

\* neither the bootstrap nor the presentation layer has run
AsideIdle ==
    /\ main = NoMain
    /\ boot = NoBoot
    /\ reply = NoReply
    /\ skipped = {}

\* ---------------------------------------------------------- lifecycle
\* scan_history as an earlier run of the process may have left it: for each
\* nation no row yet, or one observation made an hour before this run
RECURSIVE EarlierScansOf(_)
EarlierScansOf(n) ==
    IF n = 0 THEN {<<>>}
    ELSE LET rest == EarlierScansOf(n - 1)
             rows == {[nation_id |-> n, espionage_available |-> f,
                       scanned_at |-> StartTime - 1] : f \in BOOLEAN}
         IN  rest \cup {h \o <<r>> : h \in rest, r \in rows}

EarlierScans == EarlierScansOf(NumNations)

Init ==
    /\ isScanning = FALSE
    /\ scanInterval = 0
    /\ timers = <<>>
    /\ cycles = <<>>
    /\ nations \in [Nations -> LastActiveChoices(StartTime)]
    /\ scan_history \in EarlierScans
    /\ reset_times = <<>>
    /\ error_logs = 0
    /\ alreadyRunningLogged = FALSE
    /\ faults = 0
    /\ now = StartTime
    /\ ClientIdle
    /\ AsideIdle

\* faulty variant: start() without the isScanning guard
start_NoGuard ==
    /\ Len(cycles) < MaxCycles
    /\ isScanning' = TRUE
    /\ cycles' = Append(cycles, NewCycle("initial", 0))
    /\ UNCHANGED <<scanInterval, timers, storage, alreadyRunningLogged, faults, now, client, aside>>

\* faulty variant: the initial performScan() is not awaited, the timer is created
\* in the same turn
start_EagerTimer ==
    IF isScanning
    THEN /\ alreadyRunningLogged' = TRUE
         /\ UNCHANGED <<isScanning, scanInterval, timers, cycles, storage, faults, now, client, aside>>
    ELSE /\ Len(cycles) < MaxCycles
         /\ isScanning' = TRUE
         /\ cycles' = Append(cycles, NewCycle("initial", 0))
         /\ timers' = Append(timers, [live |-> TRUE, owner |-> Len(cycles) + 1,
                                      due |-> now + ScanIntervalTicks])
         /\ scanInterval' = Len(timers) + 1
         /\ UNCHANGED <<storage, alreadyRunningLogged, faults, now, client, aside>>

\* NationScanner.start(), up to its first await (the query of the initial scan)
start ==
    IF isScanning
    THEN /\ alreadyRunningLogged' = TRUE
         /\ UNCHANGED <<isScanning, scanInterval, timers, cycles, storage, faults, now, client, aside>>
    ELSE /\ Len(cycles) < MaxCycles
         /\ isScanning' = TRUE
         /\ cycles' = Append(cycles, NewCycle("initial", 0))
         /\ UNCHANGED <<scanInterval, timers, storage, alreadyRunningLogged, faults, now, client, aside>>

\* NationScanner.stop()
stop ==
    /\ timers' = IF scanInterval # 0
                 THEN [timers EXCEPT ![scanInterval].live = FALSE]
                 ELSE timers
    /\ scanInterval' = 0
    /\ isScanning' = FALSE
    /\ UNCHANGED <<cycles, storage, alreadyRunningLogged, faults, now, client, aside>>

\* the callback of setInterval: a live timer that is due starts a scan cycle
\* and is due again one period later
timerFire(t) ==
    /\ timers[t].live
    /\ now >= timers[t].due
    /\ Len(cycles) < MaxCycles
    /\ cycles' = Append(cycles, NewCycle("timer", t))
    /\ timers' = [timers EXCEPT ![t].due = now + ScanIntervalTicks]
    /\ UNCHANGED <<isScanning, scanInterval, storage, alreadyRunningLogged, faults, now, client, aside>>

\* the wall clock advances
Tick ==
    /\ now < StartTime + MaxTime
    /\ now' = now + 1
    /\ UNCHANGED <<isScanning, scanInterval, timers, cycles, storage,
                   alreadyRunningLogged, faults, client, aside>>

\* ------------------------------------------------------------ storage
\* db.query rejects (connection.js rethrows the pool's error)
QueryFails == faults < MaxFaults /\ faults' = faults + 1

\* db.query resolves
QueryOk == faults' = faults

\* -------------------------------------------------------- performScan
\* faulty variant: a failure of the candidate query ends the cycle without the
\* call of logError
selectNations_NoLog(c) ==
    /\ cycles[c].pc = "select"
    /\ \/ /\ QueryFails
          /\ EndScan(c)
          /\ UNCHANGED skipped
       \/ /\ QueryOk
          /\ \E ids \in getNationsToScan :
               /\ skipped' = Skip(ids)
               /\ IF Len(ids) = 0
                  THEN EndScan(c)
                  ELSE /\ cycles' = [cycles EXCEPT ![c].pc = "fetch", ![c].ids = ids]
                       /\ UNCHANGED <<timers, scanInterval>>
    /\ UNCHANGED <<isScanning, storage, alreadyRunningLogged, now, client, main, boot, reply>>

\* faulty variant: without the early return, an empty candidate list is handed
\* to the fetch as any other
selectNations_NoEarlyReturn(c) ==
    /\ cycles[c].pc = "select"
    /\ \/ /\ QueryFails
          /\ cycles' = [cycles EXCEPT ![c].pc = "logerr"]
          /\ UNCHANGED skipped
       \/ /\ QueryOk
          /\ \E ids \in getNationsToScan :
               /\ skipped' = Skip(ids)
               /\ cycles' = [cycles EXCEPT ![c].pc = "fetch", ![c].ids = ids]
    /\ UNCHANGED <<isScanning, timers, scanInterval, storage, alreadyRunningLogged,
                   now, client, main, boot, reply>>

\* await this.getNationsToScan(): the query fails (caught at the top of
\* performScan), returns no row (the cycle ends) or returns the candidates
selectNations(c) ==
    /\ cycles[c].pc = "select"
    /\ \/ /\ QueryFails
          /\ cycles' = [cycles EXCEPT ![c].pc = "logerr"]
          /\ UNCHANGED <<timers, scanInterval, skipped>>
       \/ /\ QueryOk
          /\ \E ids \in getNationsToScan :
               /\ skipped' = Skip(ids)
               /\ IF Len(ids) = 0
                  THEN EndScan(c)
                  ELSE /\ cycles' = [cycles EXCEPT ![c].pc = "fetch", ![c].ids = ids]
                       /\ UNCHANGED <<timers, scanInterval>>
    /\ UNCHANGED <<isScanning, storage, alreadyRunningLogged, now, client, main, boot, reply>>

\* await this.apiClient.fetchSpecificNations(nationIds), then the first
\* iteration of processResults (or the end of the cycle when nothing came back)
fetchNations(c) ==
    /\ cycles[c].pc = "fetch"
    /\ \E results \in fetchSpecificNations(cycles[c].ids) :
         IF Len(results) = 0
         THEN EndScan(c)
         ELSE /\ cycles' = [cycles EXCEPT ![c].pc = "read", ![c].ids = <<>>,
                                          ![c].results = results, ![c].i = 1]
              /\ UNCHANGED <<timers, scanInterval>>
    /\ UNCHANGED <<isScanning, storage, alreadyRunningLogged, faults, now, client, aside>>

\* faulty variant: a failure of the read is not caught inside the loop, it ends
\* processResults and is logged by performScan
readLastScan_Abort(c) ==
    /\ cycles[c].pc = "read"
    /\ \/ /\ QueryFails
          /\ cycles' = [cycles EXCEPT ![c].pc = "logerr"]
          /\ UNCHANGED <<timers, scanInterval>>
       \/ /\ QueryOk
          /\ \E rows \in LastScanRows(Nation(c).id) :
               cycles' = [cycles EXCEPT ![c].pc = "insert", ![c].lastScan = rows]
          /\ UNCHANGED <<timers, scanInterval>>
    /\ UNCHANGED <<isScanning, storage, alreadyRunningLogged, now, client, aside>>

\* await db.query(lastScanQuery): on failure the catch of the loop body skips
\* the nation
readLastScan(c) ==
    /\ cycles[c].pc = "read"
    /\ \/ /\ QueryFails
          /\ NextNation(c)
       \/ /\ QueryOk
          /\ \E rows \in LastScanRows(Nation(c).id) :
               cycles' = [cycles EXCEPT ![c].pc = "insert", ![c].lastScan = rows]
          /\ UNCHANGED <<timers, scanInterval>>
    /\ UNCHANGED <<isScanning, storage, alreadyRunningLogged, now, client, aside>>

\* faulty variant: the INSERT runs before the check reads the latest
\* ScanRecord, so the fetched flag is compared with the row just appended
recordScan_ComparesOwnRow(c) ==
    /\ cycles[c].pc = "insert"
    /\ \/ /\ QueryFails
          /\ NextNation(c)
          /\ UNCHANGED scan_history
       \/ /\ QueryOk
          /\ scan_history' = InsertScan(Nation(c))
          /\ LET own == <<scan_history'[Len(scan_history')]>>
             IN  cycles' = IF ResetDetected(own, Nation(c))
                           THEN [cycles EXCEPT ![c].pc = "record", ![c].resetTime = now,
                                               ![c].lastScan = own,
                                               ![c].row = Len(scan_history) + 1]
                           ELSE [cycles EXCEPT ![c].pc = "update", ![c].lastScan = own,
                                               ![c].row = Len(scan_history) + 1]
          /\ UNCHANGED <<timers, scanInterval>>
    /\ UNCHANGED <<isScanning, nations, reset_times, error_logs, alreadyRunningLogged, now, client, aside>>

\* await db.query(INSERT INTO scan_history ...), then the reset check; on a
\* reset recordResetTime reads the clock (new Date()) and sends its query
recordScan(c) ==
    /\ cycles[c].pc = "insert"
    /\ \/ /\ QueryFails
          /\ NextNation(c)
          /\ UNCHANGED scan_history
       \/ /\ QueryOk
          /\ scan_history' = InsertScan(Nation(c))
          /\ cycles' = IF ResetDetected(cycles[c].lastScan, Nation(c))
                       THEN [cycles EXCEPT ![c].pc = "record", ![c].resetTime = now,
                                           ![c].row = Len(scan_history) + 1]
                       ELSE [cycles EXCEPT ![c].pc = "update",
                                           ![c].row = Len(scan_history) + 1]
          /\ UNCHANGED <<timers, scanInterval>>
    /\ UNCHANGED <<isScanning, nations, reset_times, error_logs, alreadyRunningLogged, now, client, aside>>

\* faulty variant: the record carries the provider's last-activity time, not the
\* time of the check
recordResetTime_ProviderTime(c) ==
    /\ cycles[c].pc = "record"
    /\ \/ /\ QueryFails
          /\ cycles' = [cycles EXCEPT ![c].pc = "update", ![c].recErr = TRUE]
          /\ UNCHANGED reset_times
       \/ /\ QueryOk
          /\ reset_times' = UpsertReset(Nation(c).id, TimeOfDay(Nation(c).last_active),
                                        Nation(c).last_active)
          /\ cycles' = [cycles EXCEPT ![c].pc = "update"]
    /\ UNCHANGED <<isScanning, scanInterval, timers, nations, scan_history, error_logs,
                   alreadyRunningLogged, now, client, aside>>

\* recordResetTime: the upsert; its own catch swallows a failure
recordResetTime(c) ==
    /\ cycles[c].pc = "record"
    /\ \/ /\ QueryFails
          /\ cycles' = [cycles EXCEPT ![c].pc = "update", ![c].recErr = TRUE]
          /\ UNCHANGED reset_times
       \/ /\ QueryOk
          /\ reset_times' = UpsertReset(Nation(c).id, TimeOfDay(cycles[c].resetTime),
                                        cycles[c].resetTime)
          /\ cycles' = [cycles EXCEPT ![c].pc = "update"]
    /\ UNCHANGED <<isScanning, scanInterval, timers, nations, scan_history, error_logs,
                   alreadyRunningLogged, now, client, aside>>

\* faulty variant: the UPDATE has no WHERE id = $2, every nation gets the
\* last-activity time of the one in hand
updateNation_NoWhere(c) ==
    /\ cycles[c].pc = "update"
    /\ \/ /\ QueryFails
          /\ UNCHANGED nations
       \/ /\ QueryOk
          /\ nations' = [n \in DOMAIN nations |-> Nation(c).last_active]
    /\ NextNation(c)
    /\ UNCHANGED <<isScanning, scan_history, reset_times, error_logs,
                   alreadyRunningLogged, now, client, aside>>

\* await db.query(UPDATE nations SET last_active = $1 ...), end of the loop body
updateNation(c) ==
    /\ cycles[c].pc = "update"
    /\ \/ /\ QueryFails
          /\ UNCHANGED nations
       \/ /\ QueryOk
          /\ nations' = [nations EXCEPT ![Nation(c).id] = Nation(c).last_active]
    /\ NextNation(c)
    /\ UNCHANGED <<isScanning, scan_history, reset_times, error_logs,
                   alreadyRunningLogged, now, client, aside>>

\* logError('SCAN_CYCLE_ERROR', ...): the insert, or its swallowed failure
logError(c) ==
    /\ cycles[c].pc = "logerr"
    /\ \/ /\ QueryFails
          /\ UNCHANGED error_logs
       \/ /\ QueryOk
          /\ error_logs' = error_logs + 1
    /\ EndScan(c)
    /\ UNCHANGED <<isScanning, nations, scan_history, reset_times,
                   alreadyRunningLogged, now, client, aside>>

Next ==
    \/ start
    \/ stop
    \/ \E t \in 1..Len(timers) : timerFire(t)
    \/ \E c \in 1..Len(cycles) : selectNations(c)
    \/ \E c \in 1..Len(cycles) : fetchNations(c)
    \/ \E c \in 1..Len(cycles) : readLastScan(c)
    \/ \E c \in 1..Len(cycles) : recordScan(c)
    \/ \E c \in 1..Len(cycles) : recordResetTime(c)
    \/ \E c \in 1..Len(cycles) : updateNation(c)
    \/ \E c \in 1..Len(cycles) : logError(c)
    \/ Tick

Spec == Init /\ [][Next]_vars

\* ------------------------------------------------- one cycle, one batch
\* nations in the table when a single scan cycle is followed through
BatchNations == 2

\* what an earlier run of the process may have left for nation n: nothing,
\* one observation, or a detected reset (observations false then true and
\* the ResetRecord written for them)
EarlierRun(n) ==
    {[scans |-> <<>>, resets |-> <<>>]}
    \cup {[scans |-> <<[nation_id |-> n, espionage_available |-> f,
                       scanned_at |-> StartTime - 1]>>,
           resets |-> <<>>] : f \in BOOLEAN}
    \cup {[scans |-> <<[nation_id |-> n, espionage_available |-> FALSE,
                       scanned_at |-> StartTime - 2],
                      [nation_id |-> n, espionage_available |-> TRUE,
                       scanned_at |-> StartTime - 1]>>,
           resets |-> <<[nation_id |-> n, reset_time |-> TimeOfDay(StartTime - 1),
                        detected_at |-> StartTime - 1]>>]}

RECURSIVE EarlierRuns(_)
EarlierRuns(n) ==
    IF n = 0 THEN {[scans |-> <<>>, resets |-> <<>>]}
    ELSE {[scans |-> h.scans \o e.scans, resets |-> h.resets \o e.resets] :
            h \in EarlierRuns(n - 1), e \in EarlierRun(n)}

\* start() has just been called on a table of BatchNations nations, each
\* active just now, an hour ago, or not within the window
BatchInit ==
    /\ isScanning = TRUE
    /\ scanInterval = 0
    /\ timers = <<>>
    /\ cycles = <<NewCycle("initial", 0)>>
    /\ nations \in [1..BatchNations ->
                      {StartTime, StartTime - 1, StartTime - ActiveWindow}]
    /\ \E e \in EarlierRuns(BatchNations) :
          scan_history = e.scans /\ reset_times = e.resets
    /\ error_logs = 0
    /\ alreadyRunningLogged = FALSE
    /\ faults = 0
    /\ now = StartTime
    /\ ClientIdle
    /\ AsideIdle

\* the steps of that one cycle
BatchNext ==
    \/ selectNations(1)
    \/ fetchNations(1)
    \/ readLastScan(1)
    \/ recordScan(1)
    \/ recordResetTime(1)
    \/ updateNation(1)
    \/ logError(1)

BatchSpec == BatchInit /\ [][BatchNext]_vars

\* ------------------------------------- one cycle and a call of stop()
\* the single cycle of BatchSpec with stop() callable at any point. An awaited
\* storage or provider call settles and the cycle resumes, so the steps of the
\* cycle are weakly fair; nothing obliges anyone to call stop()
StopNext ==
    \/ BatchNext
    \/ stop

StopSpec == BatchInit /\ [][StopNext]_vars /\ WF_vars(BatchNext)

\* ---------------------------------------- more candidates than the cap
\* nations in the table above the LIMIT of the candidate query
CapExtra == 1

\* a table of ScanLimit + CapExtra nations, all active just now except the
\* last by id, which was active just now, an hour ago or just inside the
\* window; no nation has a ResetRecord, or the last but one has
CapInit ==
    /\ isScanning = FALSE
    /\ scanInterval = 0
    /\ timers = <<>>
    /\ cycles = <<>>
    /\ \E a \in {StartTime, StartTime - 1, StartTime + 1 - ActiveWindow} :
          nations = [n \in 1..(ScanLimit + CapExtra) |->
                        IF n = ScanLimit + CapExtra THEN a ELSE StartTime]
    /\ scan_history = <<>>
    /\ reset_times \in
          {<<>>, <<[nation_id |-> ScanLimit + CapExtra - 1,
                    reset_time |-> TimeOfDay(StartTime - 1),
                    detected_at |-> StartTime - 1]>>}
    /\ error_logs = 0
    /\ alreadyRunningLogged = FALSE
    /\ faults = 0
    /\ now = StartTime
    /\ ClientIdle
    /\ AsideIdle

\* await this.apiClient.fetchSpecificNations(nationIds) when the provider
\* answers for the first id at most: every sub-batch but the first fails
fetchFirstOnly(c) ==
    /\ cycles[c].pc = "fetch"
    /\ \E results \in ProviderRows(<<cycles[c].ids[1]>>) :
         IF Len(results) = 0
         THEN EndScan(c)
         ELSE /\ cycles' = [cycles EXCEPT ![c].pc = "read", ![c].ids = <<>>,
                                          ![c].results = results, ![c].i = 1]
              /\ UNCHANGED <<timers, scanInterval>>
    /\ UNCHANGED <<isScanning, storage, alreadyRunningLogged, faults, now, client, aside>>

CapNext ==
    \/ start
    \/ \E t \in 1..Len(timers) : timerFire(t)
    \/ \E c \in 1..Len(cycles) : selectNations(c)
    \/ \E c \in 1..Len(cycles) : fetchFirstOnly(c)
    \/ \E c \in 1..Len(cycles) : readLastScan(c)
    \/ \E c \in 1..Len(cycles) : recordScan(c)
    \/ \E c \in 1..Len(cycles) : recordResetTime(c)
    \/ \E c \in 1..Len(cycles) : updateNation(c)
    \/ \E c \in 1..Len(cycles) : logError(c)
    \/ Tick

CapSpec == CapInit /\ [][CapNext]_vars

\* ------------------------------------------- API client, step by step
\* the state of the scanner, which the client never touches
scanner == <<isScanning, scanInterval, timers, cycles, storage,
             alreadyRunningLogged, faults, now, aside>>

\* a client whose rate limiter is as constructed or as an earlier response
\* left it, before a fetch operation is called
ApiInit ==
    /\ isScanning = FALSE
    /\ scanInterval = 0
    /\ timers = <<>>
    /\ cycles = <<>>
    /\ nations = [n \in Nations |-> StartTime]
    /\ scan_history = <<>>
    /\ reset_times = <<>>
    /\ error_logs = 0
    /\ alreadyRunningLogged = FALSE
    /\ faults = 0
    /\ now = StartTime
    /\ rateLimiter \in {NewRateLimiter} \cup {update(h) : h \in Headers(StartClock)}
    /\ clock = StartClock
    /\ fetch = NoFetch
    /\ requests = <<>>
    /\ logged = 0
    /\ AsideIdle

\* fetchSpecificNations(nationIds) is called: the sub-batches are built, and
\* the loop over them begins (or the empty result is returned at once)
callFetchSpecificNations ==
    /\ fetch.op = "none"
    /\ \E n \in IdCounts :
         LET batches == Batches(IdList(n))
         IN  fetch' = [NoFetch EXCEPT !.op = "ids", !.nationIds = IdList(n),
                                      !.batches = batches,
                                      !.b = IF Len(batches) = 0 THEN 0 ELSE 1,
                                      !.pc = IF Len(batches) = 0 THEN "returned"
                                                                 ELSE "wait"]
    /\ UNCHANGED <<rateLimiter, clock, requests, logged, scanner>>

\* fetchNationsBatch(offset, limit) is called
callFetchNationsBatch ==
    /\ fetch.op = "none"
    /\ fetch' = [NoFetch EXCEPT !.op = "page", !.pc = "wait"]
    /\ UNCHANGED <<rateLimiter, clock, requests, logged, scanner>>

\* faulty variant: waitIfNeeded sleeps only once the quota is used up
waitIfNeeded_AtZero ==
    /\ fetch.pc = "wait"
    /\ IF MustWait_AtZero(rateLimiter, clock)
       THEN fetch' = [fetch EXCEPT !.pc = "sleep",
                                   !.wakeAt = clock + (rateLimiter.resetTime - clock)]
       ELSE fetch' = [fetch EXCEPT !.pc = "post", !.waited = TRUE]
    /\ UNCHANGED <<rateLimiter, clock, requests, logged, scanner>>

\* await this.rateLimiter.waitIfNeeded(): it returns at once, or calls
\* sleep(waitTime)
waitIfNeeded ==
    /\ fetch.pc = "wait"
    /\ IF MustWait(rateLimiter, clock)
       THEN fetch' = [fetch EXCEPT !.pc = "sleep",
                                   !.wakeAt = clock + (rateLimiter.resetTime - clock)]
       ELSE fetch' = [fetch EXCEPT !.pc = "post", !.waited = TRUE]
    /\ UNCHANGED <<rateLimiter, clock, requests, logged, scanner>>

\* the setTimeout of RateLimiter.sleep fires, not before its delay has
\* passed, and waitIfNeeded returns
wake ==
    /\ fetch.pc = "sleep"
    /\ clock' = Max({clock, fetch.wakeAt})
    /\ fetch' = [fetch EXCEPT !.pc = "post", !.waited = TRUE, !.wakeAt = NoTime]
    /\ UNCHANGED <<rateLimiter, requests, logged, scanner>>

\* time passes
Elapse ==
    /\ clock < StartClock + MaxSeconds * MsPerSecond
    /\ clock' = clock + MsPerSecond
    /\ UNCHANGED <<rateLimiter, fetch, requests, logged, scanner>>

\* the loop over the sub-batches goes on to the next sub-batch, or ends and
\* the results are returned
NextBatch(f) ==
    IF f.b < Len(f.batches)
    THEN [f EXCEPT !.b = @ + 1, !.pc = "wait", !.attempts = 0]
    ELSE [f EXCEPT !.pc = "returned"]

\* response.data of a 200 response: the rows asked for; a GraphQL error
\* report ({errors: [...], data: null}); a body without the nations field
\* ({data: {}}); or no parsed body at all (response.data undefined)
Bodies == {"rows", "errors", "nonations", "nobody"}

\* faulty variant: the limiter is only ever lowered, a response that reports a
\* higher remaining quota than the limiter holds is ignored
handleRateLimitHeaders_OnlyLower(present, h) ==
    IF present /\ h.remaining < rateLimiter.remaining THEN update(h) ELSE rateLimiter

\* handleRateLimitHeaders: the limiter is updated when the response carries
\* x-ratelimit-remaining
handleRateLimitHeaders(present, h) == IF present THEN update(h) ELSE rateLimiter

\* faulty variant: a sub-batch whose request failed is requested again, from
\* waitIfNeeded on, while the attempt counter allows
Caught_TriesAgain(f) ==
    IF f.op = "ids"
    THEN IF f.attempts < MaxAttempts
         THEN [f EXCEPT !.pc = "wait"]
         ELSE [f EXCEPT !.failed = @ \cup {f.b},
                        !.pc = IF f.b < Len(f.batches) THEN "wait" ELSE "returned",
                        !.b = IF f.b < Len(f.batches) THEN @ + 1 ELSE @,
                        !.attempts = IF f.b < Len(f.batches) THEN 0 ELSE @]
    ELSE [f EXCEPT !.pc = "thrown"]

\* faulty variant: the try/catch is around the whole loop, the first failing
\* sub-batch ends it
Caught_EndsLoop(f) ==
    IF f.op = "ids"
    THEN [f EXCEPT !.failed = @ \cup {f.b}, !.pc = "returned"]
    ELSE [f EXCEPT !.pc = "thrown"]

\* faulty variant: both operations rethrow what they catch
Caught_Rethrows(f) == [f EXCEPT !.pc = "thrown"]

\* the catch of the operation: fetchSpecificNations logs and goes on with the
\* next sub-batch, fetchNationsBatch logs and rethrows
Caught(f) ==
    IF f.op = "ids"
    THEN NextBatch([f EXCEPT !.failed = @ \cup {f.b}])
    ELSE [f EXCEPT !.pc = "thrown"]

\* the code after await this.axiosInstance.post(...), for each body
Received(f, body) ==
    IF f.op = "ids"
    THEN CASE body = "rows" ->
                NextBatch([f EXCEPT !.results = @ \o ApiRows(f.batches[f.b]),
                                    !.pushed = @ \cup {f.b}])
           [] body \in {"errors", "nonations"} -> NextBatch(f)
           [] body = "nobody" -> Caught(f)
    ELSE CASE body = "rows" ->
                [f EXCEPT !.pc = "returned", !.results = ApiRows(IdList(1))]
           [] body = "nonations" -> [f EXCEPT !.pc = "returned"]
           [] body \in {"errors", "nobody"} -> Caught(f)

\* the logger.error calls made on the way
Logs(f, body) ==
    IF f.op = "ids"
    THEN IF body = "nobody" THEN 1 ELSE 0
    ELSE CASE body = "errors" -> 2
           [] body = "nobody" -> 1
           [] body \in {"rows", "nonations"} -> 0

\* this.axiosInstance.post(...): one network call and what comes of it. A 200
\* response passes handleRateLimitHeaders and is read; a 429 response makes
\* handleApiError sleep for the retry-after time before it sends the request
\* again; any other failure is rethrown to the catch of the operation
Post(resetAfter) ==
    /\ fetch.pc = "post"
    /\ requests' = Append(requests, [op |-> fetch.op, b |-> fetch.b,
                                     waited |-> fetch.waited])
    /\ LET f == [fetch EXCEPT !.attempts = @ + 1, !.waited = FALSE,
                              !.throttledAt = NoTime, !.retryAfter = NoTime]
       IN  \/ \E present \in BOOLEAN, h \in Headers(clock) :
                 /\ rateLimiter' = handleRateLimitHeaders(present, h)
                 /\ \E body \in Bodies :
                       /\ fetch' = Received(
                              [f EXCEPT !.response = body,
                                        !.headers = IF present THEN h ELSE @,
                                        !.replaced = IF present THEN rateLimiter
                                                                ELSE @],
                              body)
                       /\ logged' = logged + Logs(f, body)
           \/ /\ f.attempts < MaxAttempts
              /\ \E header \in resetAfter :
                    fetch' = [f EXCEPT !.pc = "backoff", !.response = "throttled",
                                       !.throttledAt = clock, !.retryAfter = header,
                                       !.wakeAt = clock + RetryDelay(header) * MsPerSecond]
              /\ UNCHANGED <<rateLimiter, logged>>
           \/ /\ fetch' = Caught([f EXCEPT !.response = "failed"])
              /\ logged' = logged + 1
              /\ UNCHANGED rateLimiter
    /\ UNCHANGED <<clock, scanner>>

\* the network call when every 429 response leaves the default delay to apply
post == Post({header \in RetryAfterHeaders : RetryDelay(header) \in RetryAfterChoices})

\* the network call when a 429 response may carry any of the headers
postAnyResetAfter == Post(RetryAfterHeaders)

\* the setTimeout of PnWApiClient.sleep fires and handleApiError sends the
\* request again: return this.axiosInstance.request(error.config)
retry ==
    /\ fetch.pc = "backoff"
    /\ clock' = Max({clock, fetch.wakeAt})
    /\ fetch' = [fetch EXCEPT !.pc = "post", !.wakeAt = NoTime]
    /\ UNCHANGED <<rateLimiter, requests, logged, scanner>>

ApiNext ==
    \/ callFetchSpecificNations
    \/ callFetchNationsBatch
    \/ waitIfNeeded
    \/ wake
    \/ post
    \/ retry
    \/ Elapse

ApiSpec == ApiInit /\ [][ApiNext]_vars

\* ----------------------------- fetchSpecificNations, request by request
\* faulty variant: the requests of all remaining sub-batches go out together
\* (Promise.all over the sub-batches), the loop awaits the one in hand
send_AllAtOnce ==
    /\ fetch.pc = "post"
    /\ requests' = requests \o [k \in 1..(Len(fetch.batches) + 1 - fetch.b) |->
                                   [op |-> fetch.op, b |-> fetch.b + k - 1,
                                    waited |-> fetch.waited]]
    /\ fetch' = [fetch EXCEPT !.pc = "pending", !.attempts = @ + 1, !.waited = FALSE,
                              !.throttledAt = NoTime,
                              !.inflight = @ \cup (fetch.b..Len(fetch.batches))]
    /\ UNCHANGED <<rateLimiter, clock, logged, scanner>>

\* the request of the sub-batch in hand goes out: axiosInstance.post (or the
\* re-send of handleApiError) has been called and its promise is pending
send ==
    /\ fetch.pc = "post"
    /\ requests' = Append(requests, [op |-> fetch.op, b |-> fetch.b,
                                     waited |-> fetch.waited])
    /\ fetch' = [fetch EXCEPT !.pc = "pending", !.attempts = @ + 1, !.waited = FALSE,
                              !.throttledAt = NoTime,
                              !.inflight = @ \cup {fetch.b}]
    /\ UNCHANGED <<rateLimiter, clock, logged, scanner>>

\* the pending request is answered: the outcomes of post, from the response on
settle ==
    /\ fetch.pc = "pending"
    /\ LET f == [fetch EXCEPT !.inflight = @ \ {fetch.b}]
       IN  \/ \E present \in BOOLEAN, h \in Headers(clock) :
                 /\ rateLimiter' = handleRateLimitHeaders(present, h)
                 /\ \E body \in Bodies :
                       /\ fetch' = Received(
                              [f EXCEPT !.response = body,
                                        !.headers = IF present THEN h ELSE @,
                                        !.replaced = IF present THEN rateLimiter
                                                                ELSE @],
                              body)
                       /\ logged' = logged + Logs(f, body)
           \/ /\ f.attempts < MaxAttempts
              /\ \E retryAfter \in RetryAfterChoices :
                    fetch' = [f EXCEPT !.pc = "backoff", !.response = "throttled",
                                       !.throttledAt = clock,
                                       !.wakeAt = clock + retryAfter * MsPerSecond]
              /\ UNCHANGED <<rateLimiter, logged>>
           \/ /\ fetch' = Caught([f EXCEPT !.response = "failed"])
              /\ logged' = logged + 1
              /\ UNCHANGED rateLimiter
    /\ UNCHANGED <<clock, requests, scanner>>

\* one call of fetchSpecificNations with each request split into its sending
\* and its answer
SeqNext ==
    \/ callFetchSpecificNations
    \/ waitIfNeeded
    \/ wake
    \/ send
    \/ settle
    \/ retry
    \/ Elapse

SeqSpec == ApiInit /\ [][SeqNext]_vars

\* ------------------------------------------- throttling, any header
\* a page request against a provider whose 429 responses may carry
\* x-ratelimit-resetafter (both fetch operations send through the same axios
\* instance and its one response interceptor)
RetryNext ==
    \/ callFetchNationsBatch
    \/ waitIfNeeded
    \/ wake
    \/ postAnyResetAfter
    \/ retry
    \/ Elapse

RetrySpec == ApiInit /\ [][RetryNext]_vars

\* ------------------------------------------ a provider that throttles on
\* the network call at the cap of the attempt counter is answered 429 like
\* the calls before it. The counters of the model stay at their caps from
\* here on (attempts, the request log and the clock are left as they are),
\* the control flow is that of post: handleApiError sleeps and sends again
throttledAgain ==
    /\ fetch.pc = "post"
    /\ fetch.attempts = MaxAttempts - 1
    /\ fetch' = [fetch EXCEPT !.pc = "backoff", !.response = "throttled",
                              !.waited = FALSE, !.wakeAt = clock,
                              !.throttledAt = clock, !.retryAfter = NoTime]
    /\ UNCHANGED <<rateLimiter, clock, requests, logged, scanner>>

\* one call of fetchSpecificNations against a provider that answers every
\* request and may answer 429 every time
ThrottleNext ==
    \/ callFetchSpecificNations
    \/ waitIfNeeded
    \/ wake
    \/ post
    \/ throttledAgain
    \/ retry

\* every continuation that can run does run: timers fire, and the provider
\* answers every request
ThrottleSpec == ApiInit /\ [][ThrottleNext]_vars /\ WF_vars(ThrottleNext)

\* ------------------------------------------- bootstrap, page by page
\* bounds of the bootstrap specification: pages requested, rows on a page
MaxPages == 3
PageRows == 2

\* the decimal digits of a natural number: `${offset}`
RECURSIVE Digits(_)
Digits(n) == IF n < 10 THEN <<n>> ELSE Digits(n \div 10) \o <<n % 10>>

\* the number a string of decimal digits stands for
RECURSIVE Value(_)
Value(d) ==
    IF Len(d) = 0 THEN 0 ELSE Value(SubSeq(d, 1, Len(d) - 1)) * 10 + d[Len(d)]

\* parseInt(Buffer.from(cursor, 'base64').toString().split(':')[1]): the
\* digits after the first colon of the decoded text, NaN when there are none
ParseInt(d) == IF Len(d) = 0 THEN NotANumber ELSE Value(d)

\* the argument initializeNations hands to fetchNationsBatch:
\* cursor ? parseInt(...) : 0
Offset(cursor) == IF cursor = NoToken THEN 0 ELSE ParseInt(cursor.tail)

\* the after variable of fetchNationsBatch: offset > 0 ?
\* Buffer.from(`arrayconnection:${offset}`).toString('base64') : null
After(offset) ==
    IF offset # NotANumber /\ offset > 0
    THEN [head |-> "arrayconnection", tail |-> Digits(offset), padded |-> TRUE]
    ELSE NoToken

\* the row offsets a provider token may carry
CursorOffsets == {0, PageRows, MaxPages * PageRows * PageRows}

\* the endCursor values a page may carry, by the text they decode to: null;
\* the padded base64 of "arrayconnection:<n>"; the same with a leading zero,
\* without the base64 padding, or under another prefix; a text without a
\* number
EndCursors ==
    {NoToken}
    \cup {[head |-> "arrayconnection", tail |-> Digits(n), padded |-> TRUE] :
            n \in CursorOffsets}
    \cup {[head |-> "arrayconnection", tail |-> <<0>> \o Digits(PageRows),
           padded |-> TRUE],
          [head |-> "arrayconnection", tail |-> Digits(PageRows),
           padded |-> FALSE],
          [head |-> "cursor", tail |-> Digits(PageRows), padded |-> TRUE],
          [head |-> "opaque", tail |-> <<>>, padded |-> TRUE]}

\* response.data of a page: no row, or rows of distinct nations
PageData ==
    LET row(n) == [id |-> n, last_active |-> StartTime]
    IN  {<<>>} \cup {<<row(n)>> : n \in 1..PageRows}
               \cup {<<row(p[1]), row(p[2])>> :
                        p \in {q \in (1..PageRows) \X (1..PageRows) : q[1] # q[2]}}

\* what fetchNationsBatch may return for request number p
Pages(p) ==
    [data : PageData,
     hasNextPage : IF p < MaxPages THEN BOOLEAN ELSE {FALSE},
     endCursor : EndCursors]

\* the nations table is empty and initializeNations() has not been called
BootInit ==
    /\ isScanning = FALSE
    /\ scanInterval = 0
    /\ timers = <<>>
    /\ cycles = <<>>
    /\ nations = [n \in {} |-> StartTime]
    /\ scan_history = <<>>
    /\ reset_times = <<>>
    /\ error_logs = 0
    /\ alreadyRunningLogged = FALSE
    /\ faults = 0
    /\ now = StartTime
    /\ ClientIdle
    /\ AsideIdle

\* the state of the scanner and of the client outside the bootstrap
notBoot == <<isScanning, scanInterval, timers, cycles, scan_history, reset_times,
             error_logs, alreadyRunningLogged, now, client, main, reply, skipped>>

\* initializeNations() is called: cursor = null, hasMore = true
initializeNations ==
    /\ boot.pc = "idle"
    /\ boot' = [boot EXCEPT !.pc = "fetch", !.hasMore = TRUE]
    /\ UNCHANGED <<nations, faults, notBoot>>

\* faulty variant: the catch logs and leaves hasMore as it is
BootCaught_GoesOn(b) ==
    [b EXCEPT !.pc = IF Len(b.sent) < MaxPages THEN "fetch" ELSE "returned"]

\* the catch of the loop body: hasMore = false, the loop ends and
\* initializeNations returns
BootCaught(b) == [b EXCEPT !.hasMore = FALSE, !.pc = "returned"]

\* the end of the try block: totalNations, hasMore and cursor are taken from
\* the page, and the while condition is tested
EndPage(b) ==
    [b EXCEPT !.totalNations = @ + Len(b.response.data),
              !.hasMore = b.response.hasNextPage,
              !.cursor = b.response.endCursor,
              !.pc = IF b.response.hasNextPage THEN "fetch" ELSE "returned"]

\* await this.apiClient.fetchNationsBatch(...): the request is sent with its
\* after variable, and the call throws, returns undefined (a body without
\* the nations field, on which response.data throws) or returns a page
fetchPage ==
    /\ boot.pc = "fetch"
    /\ LET b == [boot EXCEPT !.sent = Append(@, After(Offset(boot.cursor)))]
       IN  \/ \E o \in {"thrown", "undefined"} :
                 boot' = BootCaught([b EXCEPT !.outcome = o])
           \/ \E page \in Pages(Len(b.sent)) :
                 LET r == [b EXCEPT !.outcome = "page", !.response = page,
                                    !.got = Append(@, page.endCursor)]
                 IN  boot' = IF Len(page.data) = 0
                             THEN EndPage(r)
                             ELSE [r EXCEPT !.pc = "upsert", !.k = 1]
    /\ UNCHANGED <<nations, faults, notBoot>>

\* INSERT INTO nations ... ON CONFLICT (id) DO UPDATE SET ... last_active = $5
UpsertNation(row) ==
    [n \in DOMAIN nations \cup {row.id} |->
        IF n = row.id THEN row.last_active ELSE nations[n]]

\* await db.query(INSERT INTO nations ...) for one row of the page, then the
\* next row or the end of the try block; a failure is caught by the same catch
upsertNation ==
    /\ boot.pc = "upsert"
    /\ \/ /\ QueryFails
          /\ boot' = BootCaught(boot)
          /\ UNCHANGED nations
       \/ /\ QueryOk
          /\ nations' = UpsertNation(boot.response.data[boot.k])
          /\ boot' = IF boot.k < Len(boot.response.data)
                     THEN [boot EXCEPT !.k = @ + 1]
                     ELSE EndPage(boot)
    /\ UNCHANGED notBoot

BootNext ==
    \/ initializeNations
    \/ fetchPage
    \/ upsertNation

BootSpec == BootInit /\ [][BootNext]_vars

\* ------------------------------------------------- presentation layer
\* requests answered in one behaviour
MaxRequests == 1

\* one row of nations n LEFT JOIN reset_times rt ON n.id = rt.nation_id
\* (nation_id is unique in reset_times); NULL is NoTime
JoinRow(n) ==
    IF HasResetRow(n)
    THEN LET rt == reset_times[CHOOSE k \in ResetRowsOf(n) : TRUE]
         IN  [id |-> n, last_active |-> nations[n],
              reset_time |-> rt.reset_time, detected_at |-> rt.detected_at]
    ELSE [id |-> n, last_active |-> nations[n],
          reset_time |-> NoTime, detected_at |-> NoTime]

\* the rows of a name search: the nations whose name matches, joined, ordered
\* by last_active DESC, the first `limit` of them
SearchRows(matching, limit) ==
    {[k \in 1..Len(Take(s, limit)) |-> JoinRow(s[k])] : s \in OrderedByRecency(matching)}

\* res.json / res.status().json / interaction.editReply: the answer sent
Answer(handler, status, rows) ==
    reply' = [handler |-> handler, status |-> status, rows |-> rows,
              served |-> reply.served + 1]

\* what no handler of the presentation layer touches apart from the tables
viewFrame ==
    UNCHANGED <<isScanning, scanInterval, timers, cycles, alreadyRunningLogged,
                now, client, main, boot, skipped>>

\* GET /nations/search: 400 without q; else the rows matching %q%, or 500
searchNations ==
    /\ reply.served < MaxRequests
    /\ \/ /\ Answer("searchNations", 400, <<>>)
          /\ UNCHANGED faults
       \/ /\ QueryFails
          /\ Answer("searchNations", 500, <<>>)
       \/ /\ QueryOk
          /\ \E matching \in SUBSET DOMAIN nations, limit \in {1, 10} :
               \E rows \in SearchRows(matching, limit) :
                  Answer("searchNations", 200, rows)
    /\ UNCHANGED storage
    /\ viewFrame

\* GET /nations/:id/reset: the joined row of the nation, 404 or 500
getNationReset ==
    /\ reply.served < MaxRequests
    /\ \/ /\ QueryFails
          /\ Answer("getNationReset", 500, <<>>)
       \/ /\ QueryOk
          /\ \E id \in 1..(BatchNations + 1) :
               IF id \in DOMAIN nations
               THEN Answer("getNationReset", 200, <<JoinRow(id)>>)
               ELSE Answer("getNationReset", 404, <<>>)
    /\ UNCHANGED storage
    /\ viewFrame

\* GET /stats: the counts of the three tables (rate_limit_status is written
\* by no code: api_requests_remaining is NULL)
getStats ==
    /\ reply.served < MaxRequests
    /\ \/ /\ QueryFails
          /\ Answer("getStats", 500, <<>>)
       \/ /\ QueryOk
          /\ Answer("getStats", 200,
                    <<[total_nations |-> Cardinality(DOMAIN nations),
                       tracked_resets |-> Len(reset_times),
                       recent_scans |-> Cardinality({k \in 1..Len(scan_history) :
                                           scan_history[k].scanned_at > now - 1}),
                       api_requests_remaining |-> NoTime]>>)
    /\ UNCHANGED storage
    /\ viewFrame

\* GET /admin/errors: the latest `limit` rows of error_logs
getAdminErrors ==
    /\ reply.served < MaxRequests
    /\ \/ /\ QueryFails
          /\ Answer("getAdminErrors", 500, <<>>)
       \/ /\ QueryOk
          /\ \E limit \in {1, 50} :
               Answer("getAdminErrors", 200,
                      <<[errors |-> IF error_logs < limit THEN error_logs ELSE limit]>>)
    /\ UNCHANGED storage
    /\ viewFrame

\* faulty variant: the command writes a ResetRecord for a nation that has none
handleResetCommand_MarksNation ==
    /\ reply.served < MaxRequests
    /\ \/ /\ QueryFails
          /\ Answer("handleResetCommand", 500, <<>>)
          /\ UNCHANGED storage
       \/ /\ QueryOk
          /\ \/ \E id \in 1..(BatchNations + 1) :
                  IF id \in DOMAIN nations
                  THEN /\ Answer("handleResetCommand", 200, <<JoinRow(id)>>)
                       /\ reset_times' = IF HasResetRow(id) THEN reset_times
                                         ELSE UpsertReset(id, TimeOfDay(now), now)
                       /\ UNCHANGED <<nations, scan_history, error_logs>>
                  ELSE /\ Answer("handleResetCommand", 404, <<>>)
                       /\ UNCHANGED storage
             \/ /\ \E matching \in SUBSET DOMAIN nations :
                     \E rows \in SearchRows(matching, 1) :
                        IF Len(rows) = 0
                        THEN Answer("handleResetCommand", 404, <<>>)
                        ELSE Answer("handleResetCommand", 200, rows)
                /\ UNCHANGED storage
    /\ viewFrame

\* the /reset command of the bot: the nation by id (digits) or the most
\* recently active nation whose name matches; the reply is the formatted row
\* (200), 'Nation not found.' (404) or 'An error occurred ...' (500)
handleResetCommand ==
    /\ reply.served < MaxRequests
    /\ \/ /\ QueryFails
          /\ Answer("handleResetCommand", 500, <<>>)
       \/ /\ QueryOk
          /\ \/ \E id \in 1..(BatchNations + 1) :
                  IF id \in DOMAIN nations
                  THEN Answer("handleResetCommand", 200, <<JoinRow(id)>>)
                  ELSE Answer("handleResetCommand", 404, <<>>)
             \/ \E matching \in SUBSET DOMAIN nations :
                  \E rows \in SearchRows(matching, 1) :
                     IF Len(rows) = 0
                     THEN Answer("handleResetCommand", 404, <<>>)
                     ELSE Answer("handleResetCommand", 200, rows)
    /\ UNCHANGED storage
    /\ viewFrame

\* one scan cycle with requests to the presentation layer arriving at any point
ViewNext ==
    \/ BatchNext
    \/ searchNations
    \/ getNationReset
    \/ getStats
    \/ getAdminErrors
    \/ handleResetCommand

ViewSpec == BatchInit /\ [][ViewNext]_vars

\* ------------------------------------------------------ process start
\* node index.js: the module is loaded, start() of index.js is about to run,
\* on an empty database or on what an earlier run left (a nation from a
\* partial import)
MainInit ==
    /\ isScanning = FALSE
    /\ scanInterval = 0
    /\ timers = <<>>
    /\ cycles = <<>>
    /\ nations \in {[n \in {} |-> StartTime], [n \in {1} |-> StartTime]}
    /\ scan_history = <<>>
    /\ reset_times = <<>>
    /\ error_logs = 0
    /\ alreadyRunningLogged = FALSE
    /\ faults = 0
    /\ now = StartTime
    /\ ClientIdle
    /\ main = [NoMain EXCEPT !.pc = "test"]
    /\ boot = NoBoot
    /\ reply = NoReply
    /\ skipped = {}

\* what the steps of start() of index.js leave alone
notMain == <<isScanning, scanInterval, timers, cycles, storage, alreadyRunningLogged,
             now, client, boot, reply, skipped>>

\* the catch of start(): logger.error, process.exit(1)
Exit(code) == [main EXCEPT !.pc = "exited", !.code = code]

\* await db.query('SELECT NOW()')
testConnection ==
    /\ main.pc = "test"
    /\ \/ QueryFails /\ main' = Exit(1)
       \/ QueryOk /\ main' = [main EXCEPT !.pc = "count"]
    /\ UNCHANGED notMain

\* faulty variant: initializeNations() is called whatever the count
countNations_Always ==
    /\ main.pc = "count"
    /\ \/ QueryFails /\ main' = Exit(1)
       \/ /\ QueryOk
          /\ main' = [main EXCEPT !.count = Cardinality(DOMAIN nations), !.pc = "boot"]
    /\ UNCHANGED notMain

\* await db.query('SELECT COUNT(*) FROM nations') and the test of the count:
\* initializeNations() is called when it is '0'
countNations ==
    /\ main.pc = "count"
    /\ \/ QueryFails /\ main' = Exit(1)
       \/ /\ QueryOk
          /\ main' = [main EXCEPT !.count = Cardinality(DOMAIN nations),
                                  !.pc = IF Cardinality(DOMAIN nations) = 0
                                         THEN "boot" ELSE "start"]
    /\ UNCHANGED notMain

\* await scanner.initializeNations() resolves; scanner.start() is next
bootReturns ==
    /\ main.pc = "boot"
    /\ boot.pc = "returned"
    /\ main' = [main EXCEPT !.pc = "start"]
    /\ UNCHANGED <<faults, notMain>>

\* await scanner.start() resolves when the initial scan has ended; app.listen
listen ==
    /\ main.pc = "start"
    /\ Len(cycles) > 0
    /\ cycles[1].pc = "done"
    /\ main' = [main EXCEPT !.pc = "listening"]
    /\ UNCHANGED <<faults, notMain>>

\* await this.apiClient.fetchSpecificNations(nationIds) while the provider is
\* out of reach: every sub-batch fails, the result is empty, the cycle ends
fetchUnanswered(c) ==
    /\ cycles[c].pc = "fetch"
    /\ EndScan(c)
    /\ UNCHANGED <<isScanning, storage, alreadyRunningLogged, faults, now, client, aside>>

\* start() of index.js, with the bootstrap and the initial scan it awaits (the
\* scan with its candidate query and a fetch that brings nothing back)
MainNext ==
    \/ testConnection
    \/ countNations
    \/ main.pc = "boot" /\ initializeNations
    \/ main.pc = "boot" /\ fetchPage
    \/ main.pc = "boot" /\ upsertNation
    \/ bootReturns
    \/ main.pc = "start" /\ cycles = <<>> /\ start
    \/ Len(cycles) > 0 /\ selectNations(1)
    \/ Len(cycles) > 0 /\ fetchUnanswered(1)
    \/ Len(cycles) > 0 /\ logError(1)
    \/ listen

MainSpec == MainInit /\ [][MainNext]_vars

\* ----------------------------------------------------------- shutdown
\* the SIGTERM handler up to its first await: scanner.stop() clears the timer
\* and the run state
sigterm ==
    /\ main.pc # "exited"
    /\ main.signal = "none"
    /\ main' = [main EXCEPT !.signal = "SIGTERM"]
    /\ timers' = IF scanInterval # 0
                 THEN [timers EXCEPT ![scanInterval].live = FALSE]
                 ELSE timers
    /\ scanInterval' = 0
    /\ isScanning' = FALSE
    /\ UNCHANGED <<cycles, storage, alreadyRunningLogged, faults, now, client,
                   boot, reply, skipped>>

\* the rest of the handler: await db.close() ends the pool, process.exit(0)
\* ends the process and whatever was awaiting
shutdown ==
    /\ main.pc # "exited"
    /\ main.signal = "SIGTERM"
    /\ main' = [main EXCEPT !.closed = TRUE, !.pc = "exited", !.code = 0]
    /\ UNCHANGED <<faults, notMain>>

\* the single cycle of BatchSpec with SIGTERM arriving at any point
ShutdownNext ==
    \/ main.pc # "exited" /\ BatchNext
    \/ sigterm
    \/ shutdown

ShutdownSpec == BatchInit /\ [][ShutdownNext]_vars

\* ------------------------------ a provider that answers for other ids
\* rows in one answer of the provider
MaxRows == 2

\* the ids the provider may answer for: those of the table and one the table
\* does not hold
ProviderIds == 1..(BatchNations + 1)

\* response.data.data.nations.data as the provider chooses it: up to MaxRows
\* rows for any ids, requested or not
AnyRows ==
    LET rows == {[id |-> n, espionage_available |-> f, last_active |-> a] :
                    n \in ProviderIds, f \in BOOLEAN, a \in LastActiveChoices(now)}
    IN  UNION {[1..k -> rows] : k \in 0..MaxRows}

\* await this.apiClient.fetchSpecificNations(nationIds): allNations.push(
\* ...response.data.data.nations.data) takes the rows as they come, and
\* processResults(apiResults) gets them all; nationIds stays with the cycle
fetchAnyNations(c) ==
    /\ cycles[c].pc = "fetch"
    /\ \E results \in AnyRows :
         IF Len(results) = 0
         THEN EndScan(c)
         ELSE /\ cycles' = [cycles EXCEPT ![c].pc = "read",
                                          ![c].results = results, ![c].i = 1]
              /\ UNCHANGED <<timers, scanInterval>>
    /\ UNCHANGED <<isScanning, storage, alreadyRunningLogged, faults, now, client, aside>>

\* the INSERT INTO scan_history for an id the nations table does not hold:
\* FOREIGN KEY (nation_id) REFERENCES nations(id) rejects it, the catch of
\* the loop body skips the nation
insertRejected(c) ==
    /\ cycles[c].pc = "insert"
    /\ Nation(c).id \notin DOMAIN nations
    /\ NextNation(c)
    /\ UNCHANGED <<isScanning, storage, alreadyRunningLogged, faults, now, client, aside>>

\* the INSERT for an id of the nations table
insertAccepted(c) ==
    /\ cycles[c].pc = "insert"
    /\ Nation(c).id \in DOMAIN nations
    /\ recordScan(c)

AnswerNext ==
    \/ selectNations(1)
    \/ fetchAnyNations(1)
    \/ readLastScan(1)
    \/ insertRejected(1)
    \/ insertAccepted(1)
    \/ recordResetTime(1)
    \/ updateNation(1)
    \/ logError(1)

AnswerSpec == BatchInit /\ [][AnswerNext]_vars

\* ------------------------------------------------------------- claims
\* the cycle that takes the step
Steps(c) == c <= Len(cycles) /\ cycles'[c] # cycles[c]

\* the read of the latest prior scan returned a row with flag false / true
PriorFalse(c) == Len(cycles[c].lastScan) > 0 /\ ~cycles[c].lastScan[1].espionage_available
PriorTrue(c) == Len(cycles[c].lastScan) > 0 /\ cycles[c].lastScan[1].espionage_available
NoPrior(c) == cycles[c].pc \in {"insert", "record", "update"} /\ Len(cycles[c].lastScan) = 0
FetchedTrue(c) == Nation(c).espionage_available

\* the loop body of processResults ends for the nation of cycle c in this step
Finishes(c) ==
    /\ cycles[c].pc \in {"read", "insert", "update"}
    /\ cycles'[c].pc \in {"read", "done"}
    /\ cycles'[c].i # cycles[c].i

\* the upsert of recordResetTime succeeds in this step
Upserts(c) ==
    /\ cycles[c].pc = "record"
    /\ cycles'[c].pc = "update"
    /\ ~cycles'[c].recErr

\* scan_history rows of nation n, in timestamp order (rows of equal timestamp
\* in insertion order): row a comes before row b
Before(a, b) ==
    \/ scan_history[a].scanned_at < scan_history[b].scanned_at
    \/ scan_history[a].scanned_at = scan_history[b].scanned_at /\ a < b

\* two timestamp-adjacent observations of n with flags false then true
FalseThenTrue(n) ==
    \E a, b \in ScanRowsOf(n) :
        /\ Before(a, b)
        /\ ~\E x \in ScanRowsOf(n) : Before(a, x) /\ Before(x, b)
        /\ ~scan_history[a].espionage_available
        /\ scan_history[b].espionage_available

AllDone == \A c \in 1..Len(cycles) : cycles[c].pc = "done"

\* C1 as stated: a ResetRecord exists for E iff E's ScanRecord sequence has
\* two timestamp-adjacent observations false then true (read at the states
\* where no scan cycle is in flight)
C1_ResetIffTransition ==
    AllDone => \A n \in Nations : HasResetRow(n) <=> FalseThenTrue(n)

\* C1 amended: in every reachable state a ResetRecord exists for E only if
\* E's ScanRecord sequence, ordered by timestamp, has two adjacent
\* observations false then true
C1_ResetOnlyIfTransition ==
    \A n \in Nations : HasResetRow(n) => FalseThenTrue(n)

C1_Witness ==
    \E n \in Nations : HasResetRow(n) /\ FalseThenTrue(n)

\* the row of scan_history that cycle c appended for its current nation
Appended(c) ==
    /\ cycles[c].row \in 1..Len(scan_history)
    /\ scan_history[cycles[c].row].nation_id = Nation(c).id
    /\ scan_history[cycles[c].row].espionage_available = Nation(c).espionage_available

C3_NoWriteWithoutTransition ==
    [][\A c \in 1..Len(cycles) :
          (Steps(c) /\ InLoop(c) /\ (PriorTrue(c) \/ ~FetchedTrue(c))) =>
              reset_times' = reset_times]_vars

C3_Witness ==
    \E c \in 1..Len(cycles) :
        cycles[c].pc = "update" /\ PriorTrue(c) /\ FetchedTrue(c)

\* C4: a cycle makes no write to reset_times while it processes an entity
\* that had no prior ScanRecord and is observed with flag true
C4_FirstObservationNeverDetects ==
    [][\A c \in 1..Len(cycles) :
          (Steps(c) /\ NoPrior(c) /\ FetchedTrue(c)) =>
              reset_times' = reset_times]_vars

C4_Witness ==
    \E c \in 1..Len(cycles) :
        /\ cycles[c].pc = "update" /\ NoPrior(c) /\ FetchedTrue(c)
        /\ ~HasResetRow(Nation(c).id)

\* C5: reset_times holds at most one row per entity
C5_AtMostOneResetRecord ==
    \A n \in Nations : Cardinality(ResetRowsOf(n)) <= 1

\* two cycles have both upserted a ResetRecord of the same entity
C5_Witness ==
    \E c, d \in 1..Len(cycles) :
        /\ c # d
        /\ cycles[c].pc = "update" /\ cycles[d].pc = "update"
        /\ cycles[c].resetTime # NoTime /\ cycles[d].resetTime # NoTime
        /\ ~cycles[c].recErr /\ ~cycles[d].recErr
        /\ Nation(c).id = Nation(d).id
        /\ Cardinality(ResetRowsOf(Nation(c).id)) = 1

\* C6: every step leaves the existing rows of scan_history as they are, and
\* a row it appends has a timestamp not smaller than that of any existing row
\* of the same entity
C6_ScanHistoryAppendOnly ==
    [][/\ Len(scan_history') >= Len(scan_history)
       /\ \A k \in 1..Len(scan_history) : scan_history'[k] = scan_history[k]
       /\ \A k \in (Len(scan_history) + 1)..Len(scan_history') :
             \A j \in ScanRowsOf(scan_history'[k].nation_id) :
                 scan_history'[k].scanned_at >= scan_history[j].scanned_at]_vars

\* a row has been appended after an older row of the same entity
C6_Witness ==
    \E a, b \in 1..Len(scan_history) :
        /\ a < b
        /\ scan_history[a].nation_id = scan_history[b].nation_id
        /\ scan_history[a].scanned_at < scan_history[b].scanned_at

C8_NoCycleBeginsWhileIdle ==
    [][Len(cycles') > Len(cycles) => isScanning']_vars

\* C9: start() on a Running orchestrator starts no scan cycle, creates no
\* timer and leaves the orchestrator state and the storage as they are
C9_StartWhileRunningIsNoOp ==
    [][(isScanning /\ start) =>
          /\ cycles' = cycles
          /\ timers' = timers
          /\ scanInterval' = scanInterval
          /\ isScanning' = isScanning
          /\ storage' = storage]_vars

C9_Witness == isScanning /\ alreadyRunningLogged /\ Len(cycles) > 0

\* the initial scan cycle of the start() call that created timer t has ended
InitialEnded(t) ==
    /\ timers[t].owner \in 1..Len(cycles)
    /\ cycles[timers[t].owner].kind = "initial"
    /\ cycles[timers[t].owner].pc = "done"

\* C10: start() from Idle moves to Running and begins exactly one scan cycle
\* at once, without a timer; every timer exists only after the initial cycle
\* of its start() call has ended, and so does every timer-driven cycle
C10_TimerAfterInitialScan ==
    /\ [][(~isScanning /\ start) =>
             /\ isScanning'
             /\ cycles' = Append(cycles, NewCycle("initial", 0))
             /\ timers' = timers
             /\ scanInterval' = scanInterval]_vars
    /\ [](\A t \in 1..Len(timers) : InitialEnded(t))
    /\ [](\A c \in 1..Len(cycles) :
             cycles[c].kind = "timer" =>
                 cycles[c].timer \in 1..Len(timers) /\ InitialEnded(cycles[c].timer))

C10_Witness ==
    \E c \in 1..Len(cycles) : cycles[c].kind = "timer" /\ InitialEnded(cycles[c].timer)

\* the storage query awaited by cycle c fails in this step
Fails(c) == Steps(c) /\ faults' > faults

\* no step of a scan cycle cancels a timer or changes the run state
ScheduleKept ==
    /\ isScanning' = isScanning
    /\ Len(timers') >= Len(timers)
    /\ \A t \in 1..Len(timers) : timers'[t] = timers[t]

PriorRows(n) == {k \in ScanRowsOf(n) : scan_history[k].scanned_at < StartTime}

PriorFlagFalse(n) ==
    /\ PriorRows(n) # {}
    /\ ~scan_history[Max(PriorRows(n))].espionage_available

\* entity k of the batch of cycle c has been processed in full: its ScanRecord
\* is appended, the detection has written a ResetRecord where the flag went
\* from false to true, and the entity's last activity is updated
Processed(c, k) ==
    LET r == cycles[c].results[k]
    IN  /\ \E j \in ScanRowsOf(r.id) :
              /\ scan_history[j].scanned_at >= StartTime
              /\ scan_history[j].espionage_available = r.espionage_available
        /\ (PriorFlagFalse(r.id) /\ r.espionage_available) => HasResetRow(r.id)
        /\ nations[r.id] = r.last_active

\* C12: in the single cycle of BatchSpec every entity of the batch is visited
\* in order whatever fails (the loop never ends early and never reaches the
\* catch of performScan); the entities already passed that are not processed
\* in full are never more than the storage failures so far (one failure costs
\* at most the entity it hits); and the entity in hand, once at its update,
\* has its ScanRecord appended and its detection done, and is updated unless
\* the update itself fails
C12_FailureContainedToEntity ==
    /\ [](\A c \in 1..Len(cycles) :
            InLoop(c) =>
                /\ Cardinality({k \in 1..(cycles[c].i - 1) : ~Processed(c, k)}) <= faults
                /\ cycles[c].pc = "update" =>
                      /\ Appended(c)
                      /\ (ResetDetected(cycles[c].lastScan, Nation(c)) /\ ~cycles[c].recErr)
                            => HasResetRow(Nation(c).id))
    /\ [][\A c \in 1..Len(cycles) :
            (Steps(c) /\ cycles[c].pc = "update" /\ ~Fails(c)) =>
                nations'[Nation(c).id] = Nation(c).last_active]_vars
    /\ [][\A c \in 1..Len(cycles) :
            (Steps(c) /\ InLoop(c)) =>
                \/ cycles'[c].i = cycles[c].i /\ InLoop(c)'
                \/ /\ cycles'[c].i = cycles[c].i + 1
                   /\ cycles'[c].pc = "read"
                   /\ cycles'[c].results = cycles[c].results
                \/ /\ cycles'[c].pc = "done"
                   /\ cycles[c].i = Len(cycles[c].results)]_vars

\* the first entity of the batch was hit by the one failure, and the last entity
\* has its ScanRecord appended and is about to be updated
C12_Witness ==
    \E c \in 1..Len(cycles) :
        /\ cycles[c].pc = "update"
        /\ cycles[c].i = BatchNations
        /\ faults = 1
        /\ ~Processed(c, 1)
        /\ Appended(c)

\* C13: when the candidate query of a cycle succeeds on an empty candidate
\* set, the cycle ends in that very step, before any call of the fetch, and
\* nothing is written to nations, scan_history, reset_times or error_logs;
\* the fetch is never called on an empty id list
C13_EmptyCandidatesNoAction ==
    /\ [][\A c \in 1..Len(cycles) :
            (Steps(c) /\ cycles[c].pc = "select" /\ ~Fails(c) /\ Eligible = {}) =>
                /\ cycles'[c].pc = "done"
                /\ storage' = storage]_vars
    /\ [](\A c \in 1..Len(cycles) : cycles[c].pc = "fetch" => Len(cycles[c].ids) > 0)

\* the cycle has ended on an empty candidate set: nothing failed, nothing was
\* observed, the timer of start() exists
C13_Witness ==
    /\ cycles[1].pc = "done"
    /\ Eligible = {}
    /\ faults = 0
    /\ \A k \in 1..Len(scan_history) : scan_history[k].scanned_at < StartTime
    /\ Len(timers) = 1

\* LIMIT on a result longer than the limit: of ScanLimit + 1 rows the first
\* ScanLimit are returned, in their order
LimitCapsLongResult ==
    LET long == IdList(ScanLimit + 1)
    IN  /\ Len(Take(long, ScanLimit)) = ScanLimit
        /\ \A k \in 1..ScanLimit : Take(long, ScanLimit)[k] = long[k]
        /\ Take(IdList(ScanLimit), ScanLimit) = IdList(ScanLimit)

Returned == fetch.op = "ids" /\ fetch.pc = "returned"

\* the ids of sub-batch b
IdsOf(b) == {fetch.batches[b][k] : k \in 1..Len(fetch.batches[b])}

\* the network calls made for sub-batch b
CallsFor(b) == {k \in 1..Len(requests) : requests[k].b = b}

\* the rows of the sub-batches in S, sub-batch after sub-batch up to sub-batch n
RECURSIVE RowsOfBatches(_, _)
RowsOfBatches(S, n) ==
    IF n = 0 THEN <<>>
    ELSE RowsOfBatches(S, n - 1)
            \o (IF n \in S THEN ApiRows(fetch.batches[n]) ELSE <<>>)

\* C15: fetchSpecificNations never throws; when it returns, every sub-batch
\* has been requested whatever failed before it, the result is the rows of
\* the sub-batches that answered with rows, in the order of the sub-batches,
\* with no row of a sub-batch whose call failed, and one error is logged per
\* failing sub-batch
C15_FailingSubBatchExcluded ==
    /\ fetch.op = "ids" => fetch.pc # "thrown"
    /\ Returned =>
          /\ \A b \in 1..Len(fetch.batches) : CallsFor(b) # {}
          /\ fetch.failed \cap fetch.pushed = {}
          /\ fetch.results = RowsOfBatches(fetch.pushed, Len(fetch.batches))
          /\ \A b \in fetch.failed : \A k \in 1..Len(fetch.results) :
                fetch.results[k].id \notin IdsOf(b)
          /\ logged = Cardinality(fetch.failed)

\* three sub-batches, the middle one failed: the rows of the first and the
\* third are returned and one error is logged
C15_Witness ==
    /\ Returned
    /\ Len(fetch.batches) = 3
    /\ fetch.failed = {2}
    /\ fetch.pushed = {1, 3}
    /\ Len(fetch.results) = Len(fetch.batches[1]) + Len(fetch.batches[3])
    /\ logged = 1

\* the sub-batches up to sub-batch n, one after the other
RECURSIVE Joined(_, _)
Joined(batches, n) == IF n = 0 THEN <<>> ELSE Joined(batches, n - 1) \o batches[n]

\* C16: the sub-batches of an id list of length n are the list cut in order
\* into ceil(n / 100) pieces, each of 100 ids but the last, which has between
\* 1 and 100; every id is in exactly one sub-batch; and the network calls go
\* sub-batch by sub-batch in order, one call of post() for each (a request
\* sent again after a 429 response belongs to the call that sent it first)
C16_SubBatchesPartitionList ==
    /\ [][(fetch.op = "none" /\ fetch'.op = "ids") =>
            LET ids == fetch'.nationIds
                batches == fetch'.batches
                n == Len(ids)
                m == Len(batches)
            IN  /\ m = (n + batchSize - 1) \div batchSize
                /\ Joined(batches, m) = ids
                /\ \A b \in 1..m : Len(batches[b]) \in 1..batchSize
                /\ \A b \in 1..(m - 1) : Len(batches[b]) = batchSize
                /\ \A k \in 1..n :
                      Cardinality({b \in 1..m :
                          \E j \in 1..Len(batches[b]) : batches[b][j] = ids[k]}) = 1]_vars
    /\ [][fetch.op = "ids" =>
            fetch'.batches = fetch.batches /\ fetch'.nationIds = fetch.nationIds]_vars
    /\ [](fetch.op = "ids" =>
            LET m == Len(fetch.batches)
            IN  /\ \A k \in 1..Len(requests) : requests[k].b \in 1..m
                /\ \A j, k \in 1..Len(requests) : j < k => requests[j].b <= requests[k].b
                /\ \A b \in 1..m :
                      Cardinality({k \in CallsFor(b) : requests[k].waited}) =
                          IF b < fetch.b \/ Returned THEN 1
                          ELSE IF b = fetch.b /\ fetch.pc = "backoff" THEN 1
                          ELSE IF b = fetch.b /\ fetch.pc = "post" /\ fetch.attempts > 0
                               THEN 1
                          ELSE 0)

\* 201 ids have gone out as sub-batches of 100, 100 and 1
C16_Witness ==
    /\ Returned
    /\ Len(fetch.nationIds) = 2 * batchSize + 1
    /\ Len(fetch.batches) = 3
    /\ Len(fetch.batches[3]) = 1
    /\ \A b \in 1..3 : CallsFor(b) # {}

\* C17 as stated: one logical request causes at most two network calls, the
\* request and a single retry after a 429 response
C17_AtMostOneRetry == fetch.attempts <= 2

\* a network call is made in this step
Posts == requests' # requests

\* a response that is neither the rows asked for nor a 429
BadResponses == {"failed", "errors", "nonations", "nobody"}

C19_EveryCallAfterWait == \A k \in 1..Len(requests) : requests[k].waited

\* C20: waitIfNeeded() returns at once, the clock unchanged, unless remaining
\* is at most 10 and the reset time is known and in the future; then it does
\* not return in that step but sleeps until the reset time, and when it
\* returns the clock is not before the reset time
C20_WaitsUntilResetOnlyWhenLow ==
    /\ [][(fetch.pc = "wait" /\ fetch' # fetch) =>
            IF /\ rateLimiter.remaining <= minBuffer
               /\ rateLimiter.resetTime \notin {NoTime, NotANumber}
               /\ rateLimiter.resetTime > clock
            THEN /\ fetch'.pc = "sleep"
                 /\ fetch'.wakeAt = rateLimiter.resetTime
            ELSE /\ fetch'.pc = "post"
                 /\ fetch'.waited
                 /\ clock' = clock]_vars
    /\ [][(fetch.pc = "sleep" /\ fetch'.pc # "sleep") =>
            /\ fetch'.pc = "post"
            /\ fetch'.waited
            /\ clock' >= fetch.wakeAt]_vars
    /\ [](fetch.pc = "sleep" =>
            fetch.wakeAt = rateLimiter.resetTime /\ rateLimiter.remaining <= minBuffer)

\* waitIfNeeded() has slept until a reset time that lay a second ahead, after
\* a retry pause, and has returned
C20_Witness ==
    /\ fetch.pc = "post"
    /\ fetch.waited
    /\ rateLimiter.remaining <= minBuffer
    /\ clock = rateLimiter.resetTime
    /\ clock > StartClock + MaxSeconds * MsPerSecond

\* the rate-limit state a response's headers stand for: the remaining quota
\* and the limit as sent, the reset epoch in milliseconds
Metadata(h) ==
    [remaining |-> h.remaining,
     resetTime |-> IF h.reset = NotANumber THEN NotANumber
                                          ELSE h.reset * MsPerSecond,
     limit |-> h.limit]

\* a response with rate-limit headers is handled in this step
Handles ==
    /\ fetch.pc = "post"
    /\ fetch'.response \in Bodies
    /\ \/ fetch'.headers # fetch.headers
       \/ fetch'.replaced # fetch.replaced
       \/ rateLimiter' # rateLimiter

\* C21: once a response with rate-limit headers has been handled, the limiter
\* holds the metadata of the last such response, whatever it held before; a
\* step of the client changes the limiter only by handling such a response,
\* and the state it leaves is one that response's headers determine alone
C21_LastResponseWins ==
    /\ [](fetch.headers # NoHeaders => rateLimiter = Metadata(fetch.headers))
    /\ [][/\ rateLimiter' # rateLimiter => Handles
          /\ Handles =>
                /\ fetch'.headers \in Headers(clock)
                /\ fetch'.replaced = rateLimiter
                /\ rateLimiter' = Metadata(fetch'.headers)]_vars

\* the response to the second sub-batch reported a higher remaining quota
\* and a later reset than the limiter held from the response to the first
C21_Witness ==
    /\ fetch.pushed = {1, 2}
    /\ fetch.headers # NoHeaders
    /\ fetch.replaced # NewRateLimiter
    /\ fetch.replaced.remaining < rateLimiter.remaining
    /\ fetch.replaced.resetTime # NotANumber
    /\ LessEq(fetch.replaced.resetTime + 1, rateLimiter.resetTime)
    /\ rateLimiter = Metadata(fetch.headers)

\* the call of fetchNationsBatch made in this step does not return a page
PageFetchFails ==
    /\ boot.pc = "fetch"
    /\ boot' # boot
    /\ boot'.outcome # "page"

\* C22: the step in which a page fetch fails ends the loop and returns from
\* initializeNations (it never throws) with the nations table and the count
\* as they were; once initializeNations has returned no page is requested and
\* nothing is written; and no step of the bootstrap removes a nation
C22_FetchFailureEndsBootstrap ==
    /\ [](boot.pc \in {"idle", "fetch", "upsert", "returned"})
    /\ [][/\ PageFetchFails =>
                /\ boot'.pc = "returned"
                /\ ~boot'.hasMore
                /\ boot'.totalNations = boot.totalNations
                /\ nations' = nations
          /\ boot.pc = "returned" => UNCHANGED <<boot, nations>>
          /\ \A n \in DOMAIN nations :
                n \in DOMAIN nations' /\ nations'[n] = nations[n]]_vars

\* the request for the second page failed after both nations of the first
\* page were upserted: the bootstrap has returned and both are in the table
C22_Witness ==
    /\ boot.pc = "returned"
    /\ boot.outcome = "thrown"
    /\ Len(boot.sent) = 2
    /\ boot.totalNations = PageRows
    /\ DOMAIN nations = 1..PageRows

\* C23 as stated: the first page request carries no token, and the request
\* for page N+1 carries the endCursor received with page N, unchanged
C23_TokenSentVerbatim ==
    boot.sent # <<>> =>
        /\ boot.sent[1] = NoToken
        /\ \A N \in 1..(Len(boot.sent) - 1) : boot.sent[N + 1] = boot.got[N]

\* the scan cycles that have begun and not ended
InFlight == {c \in 1..Len(cycles) : cycles[c].pc # "done"}

\* C24 as stated: a scan cycle begins only when the previous cycle has
\* finished, so at most one performScan is in flight at any time
C24_SingleFlight ==
    /\ [](Cardinality(InFlight) <= 1)
    /\ [][Len(cycles') > Len(cycles) => InFlight = {}]_vars

\* cycle c sends the upsert of recordResetTime in this step (it may fail)
RunsRecordResetTime(c) == Steps(c) /\ cycles[c].pc = "record"

\* C25 as stated: recordResetTime is never executed for an entity that
\* already has a ResetRecord, and no step changes an existing ResetRecord
C25_OverwriteUnreachable ==
    [][/\ \A c \in 1..Len(cycles) :
             RunsRecordResetTime(c) => ~HasResetRow(Nation(c).id)
       /\ \A k \in 1..Len(reset_times) :
             k <= Len(reset_times') /\ reset_times'[k] = reset_times[k]]_vars

\* the rows of a table that belong to nation n, in table order
RowsFor(table, n) == SelectSeq(table, LAMBDA r : r.nation_id = n)

\* this step writes nothing about nation n
Untouched(n) ==
    /\ nations'[n] = nations[n]
    /\ RowsFor(scan_history', n) = RowsFor(scan_history, n)
    /\ RowsFor(reset_times', n) = RowsFor(reset_times, n)

Stops == isScanning /\ ~isScanning'

\* C27: stop() leaves every scan cycle and the storage as they are; the loop
\* of a cycle goes through the fetched entities one by one and ends only
\* after the last, whether or not stop() was called; and a cycle in flight
\* when the scanner is Idle goes on to its end
C27_StopDoesNotInterrupt ==
    /\ [][Stops => UNCHANGED <<cycles, storage>>]_vars
    /\ [][\A c \in 1..Len(cycles) :
             Steps(c) /\ InLoop(c) =>
                IF cycles'[c].pc = "done"
                THEN cycles[c].i = Len(cycles[c].results)
                ELSE /\ cycles'[c].results = cycles[c].results
                     /\ cycles'[c].i \in {cycles[c].i, cycles[c].i + 1}
                     /\ InLoop(c)']_vars
    /\ (~isScanning /\ cycles[1].pc # "done") ~> (cycles[1].pc = "done")

\* stop() was called while the cycle was running (the timer that the end of
\* the initial cycle creates is alive on an Idle scanner), and the cycle has
\* gone through both fetched nations and ended
C27_Witness ==
    /\ ~isScanning
    /\ cycles[1].pc = "done"
    /\ Len(timers) = 1 /\ timers[1].live
    /\ \A n \in 1..BatchNations :
          \E k \in ScanRowsOf(n) : scan_history[k].scanned_at = StartTime

\* C28: while the scanner is Running, no nation without a ResetRecord that a
\* candidate query has left out, and no later query has returned, has stopped
\* being a candidate: every such nation can still be included by a later cycle
\* (last_active of a nation is refreshed by the fetch of a selected nation
\* only, so a left-out nation that falls out of the window is out for good)
C28_NoCandidateLeftOut ==
    isScanning => \A n \in skipped : ~HasResetRow(n) => n \in Eligible

\* C29: no handler of the presentation layer (the four HTTP routes and the
\* reset command of the bot) changes the ScanRecord or ResetRecord tables:
\* every step that sends an answer leaves both as they were
C29_ViewsLeaveRecords ==
    [][reply' # reply => UNCHANGED <<scan_history, reset_times>>]_vars

\* a request is answered from tables that hold ScanRecords and a ResetRecord,
\* while the cycle is in its loop
C29_Witness ==
    /\ reply.status = 200
    /\ reply.handler \in {"searchNations", "getNationReset", "handleResetCommand"}
    /\ Len(reply.rows) > 0
    /\ reply.rows[1].reset_time # NoTime
    /\ Len(scan_history) > 0
    /\ InLoop(1)

\* the rows of scan_history that hold an observation of nation n made at the
\* present time
RowsNow(n) == {k \in ScanRowsOf(n) : scan_history[k].scanned_at = now}

\* C30: for a fetched entity processed without storage error, the read of the
\* latest prior ScanRecord comes first and appends nothing; the next step
\* appends exactly one ScanRecord, carrying the entity's id, the fetched flag
\* and the time of the check, whether or not a reset is detected; the
\* detection is decided by the row that was read (prior flag false, fetched
\* flag true), which is an earlier row of the table and never the row
\* appended in this iteration
C30_ReadThenAppendOnce ==
    /\ [][\A c \in 1..Len(cycles) :
            (Steps(c) /\ cycles[c].pc = "read" /\ ~Fails(c)) =>
                LET n == Nation(c).id
                    read == cycles'[c].lastScan
                IN  /\ cycles'[c].pc = "insert"
                    /\ scan_history' = scan_history
                    /\ RowsNow(n) = {}
                    /\ (Len(read) = 0) = (ScanRowsOf(n) = {})
                    /\ Len(read) > 0 =>
                          /\ Len(read) = 1
                          /\ \E k \in ScanRowsOf(n) : scan_history[k] = read[1]
                          /\ \A k \in ScanRowsOf(n) :
                                scan_history[k].scanned_at <= read[1].scanned_at]_vars
    /\ [][\A c \in 1..Len(cycles) :
            (Steps(c) /\ cycles[c].pc = "insert" /\ ~Fails(c)) =>
                LET read == cycles[c].lastScan
                IN  /\ scan_history' =
                          Append(scan_history,
                                 [nation_id |-> Nation(c).id,
                                  espionage_available |-> Nation(c).espionage_available,
                                  scanned_at |-> now])
                    /\ cycles'[c].lastScan = read
                    /\ cycles'[c].pc \in {"record", "update"}
                    /\ (cycles'[c].pc = "record") =
                          (/\ Len(read) > 0
                           /\ ~read[1].espionage_available
                           /\ Nation(c).espionage_available)]_vars
    /\ [][scan_history' # scan_history =>
            \E c \in 1..Len(cycles) :
                Steps(c) /\ cycles[c].pc = "insert" /\ ~Fails(c)]_vars
    /\ [](\A c \in 1..Len(cycles) :
            cycles[c].pc \in {"record", "update"} =>
                LET read == cycles[c].lastScan
                IN  /\ RowsNow(Nation(c).id) = {cycles[c].row}
                    /\ scan_history[cycles[c].row].espionage_available =
                          Nation(c).espionage_available
                    /\ Len(read) > 0 =>
                          /\ read[1] # scan_history[cycles[c].row]
                          /\ \E k \in 1..(cycles[c].row - 1) : scan_history[k] = read[1])

\* the second entity of the batch had a prior ScanRecord with flag false and
\* was fetched with flag true: its ScanRecord is appended and the reset is
\* about to be recorded, after the first entity, seen for the first time,
\* got its ScanRecord without any detection; no storage error occurred
C30_Witness ==
    /\ cycles[1].pc = "record"
    /\ cycles[1].i = BatchNations
    /\ faults = 0
    /\ ~cycles[1].lastScan[1].espionage_available
    /\ scan_history[cycles[1].row].espionage_available
    /\ LET first == cycles[1].results[1].id
       IN  /\ Cardinality(ScanRowsOf(first)) = 1
           /\ RowsNow(first) # {}
           /\ ~HasResetRow(first)

\* C31: within one call of fetchSpecificNations at most one request is in
\* flight at any time; requests go out in sub-batch order; and when a request
\* for a sub-batch goes out no request is in flight, every earlier sub-batch
\* has had its request, and the sub-batch before it was answered for good
\* (the request log ends with it, and the call is not in a retry of it)
C31_SubBatchesSequential ==
    /\ [](Cardinality(fetch.inflight) <= 1)
    /\ [](\A i, j \in 1..Len(requests) : i < j => requests[i].b <= requests[j].b)
    /\ [][requests' # requests =>
            /\ fetch.inflight = {}
            /\ Len(requests') = Len(requests) + 1
            /\ requests'[Len(requests')].b = fetch.b
            /\ fetch'.inflight = {fetch.b}
            /\ \A k \in 1..(fetch.b - 1) : \E i \in 1..Len(requests) : requests[i].b = k
            /\ Len(requests) > 0 =>
                  \/ requests[Len(requests)].b = fetch.b - 1 /\ fetch.attempts = 0
                  \/ requests[Len(requests)].b = fetch.b /\ fetch.response = "throttled"]_vars

\* the request of the last of MaxBatches sub-batches is in flight after the
\* first sub-batch failed and the second was throttled once
C31_Witness ==
    /\ fetch.pc = "pending"
    /\ fetch.b = MaxBatches
    /\ fetch.inflight = {MaxBatches}
    /\ 1 \in fetch.failed
    /\ Len(requests) = MaxBatches + 1

\* C32: at process start initializeNations is called only after the count
\* query answered zero, and before any scan cycle exists; a scan cycle begins
\* only from start() of index.js, after the count, and after the bootstrap
\* has returned when it was called (in full or after a failure that left a
\* partial import); once returned the bootstrap is not run again; and when
\* the count was positive the bootstrap is never called
C32_BootstrapOnlyOnEmptyBeforeScan ==
    /\ [][(boot.pc = "idle" /\ boot'.pc # "idle") =>
            /\ main.pc = "boot"
            /\ main.count = 0
            /\ DOMAIN nations = {}
            /\ cycles = <<>>
            /\ ~isScanning]_vars
    /\ [][(cycles = <<>> /\ cycles' # <<>>) =>
            /\ main.pc = "start"
            /\ main.count >= 0
            /\ main.count = 0 => boot.pc = "returned"]_vars
    /\ [](cycles # <<>> => boot.pc \in {"idle", "returned"})
    /\ [][boot.pc = "returned" => boot' = boot]_vars
    /\ [](main.count > 0 => boot = NoBoot)

\* the first cycle has begun after a bootstrap that imported the first page
\* and failed on the second
C32_Witness ==
    /\ cycles # <<>>
    /\ main.count = 0
    /\ boot.pc = "returned"
    /\ boot.outcome = "thrown"
    /\ Len(boot.sent) = 2
    /\ DOMAIN nations # {}

C34_NoCloseDuringCycle ==
    main.closed => \A c \in 1..Len(cycles) : cycles[c].pc = "done"

\* two observations of n that follow one another in append order, with
\* flags false then true
AppendedFalseThenTrue(n) ==
    \E a, b \in ScanRowsOf(n) :
        /\ a < b
        /\ ~\E x \in ScanRowsOf(n) : a < x /\ x < b
        /\ ~scan_history[a].espionage_available
        /\ scan_history[b].espionage_available

\* C35: in every reachable state, overlapping cycles and failed storage
\* queries included, an entity with a ResetRecord has two ScanRecords adjacent
\* in append order with flags false then true
C35_NoSpuriousResetRecord ==
    \A n \in Nations : HasResetRow(n) => AppendedFalseThenTrue(n)

\* two cycles are in their loops on the same entity at once, a storage query
\* has failed, and the entity has a ResetRecord
C35_Witness ==
    \E c, d \in 1..Len(cycles) :
        /\ c < d
        /\ InLoop(c) /\ InLoop(d)
        /\ Nation(c).id = Nation(d).id
        /\ cycles[d].row # 0
        /\ faults > 0
        /\ HasResetRow(Nation(c).id)

\* the timers created by setInterval and not cleared
LiveTimers == {t \in 1..Len(timers) : timers[t].live}

\* C36: at most one recurring timer is live at any time, and a timer is live
\* only while the scanner is Running
C36_OneLiveTimerOnlyWhileRunning ==
    /\ Cardinality(LiveTimers) <= 1
    /\ LiveTimers # {} => isScanning

\* C37: a scan cycle ends when the provider answers every request and the
\* storage every query: the call of fetchSpecificNations that performScan
\* awaits returns, whatever the provider answers
C37_FetchReturns == (fetch.op = "ids") ~> (fetch.pc = "returned")

\* C38: against a provider that hands out a next token with every page, a
\* different one each time, initializeNations never sends the same page
\* request twice (and so comes to the end of a finite catalog)
C38_NoPageRequestedTwice ==
    (/\ \A k \in 1..Len(boot.got) : boot.got[k] # NoToken
     /\ \A i, j \in 1..Len(boot.got) : i < j => boot.got[i] # boot.got[j])
    => \A i, j \in 1..Len(boot.sent) : i < j => boot.sent[i] # boot.sent[j]

\* ceil(c / batchSize) for an id list of c candidates
SubBatchCount(c) == (c + batchSize - 1) \div batchSize

\* the network calls made by the loop of fetchSpecificNations itself, each
\* after its waitIfNeeded; the other calls are re-sends of handleApiError
FirstSends == {k \in 1..Len(requests) : requests[k].waited}

\* C39 as stated: a call of fetchSpecificNations with c candidates makes at
\* most ceil(c / 100) network calls, re-sent requests counted
C39_RequestsBoundedWithResends ==
    fetch.op = "ids" => Len(requests) <= SubBatchCount(Len(fetch.nationIds))

\* C39 amended: a call of fetchSpecificNations with c candidates sends at most
\* ceil(c / 100) requests, one per sub-batch, re-sent requests not counted
\* (for the ScanLimit candidates of a full cycle that is 50 at most); once
\* the call has returned it has sent exactly that many
C39_RequestsBoundedWithoutResends ==
    /\ [](fetch.op = "ids" =>
            /\ Cardinality(FirstSends) <= SubBatchCount(Len(fetch.nationIds))
            /\ \A j, k \in FirstSends : j # k => requests[j].b # requests[k].b
            /\ Returned => Cardinality(FirstSends) = SubBatchCount(Len(fetch.nationIds)))
    /\ [][(fetch.op = "none" /\ fetch'.op = "ids") =>
            /\ Len(fetch'.batches) = SubBatchCount(Len(fetch'.nationIds))
            /\ Len(Batches(IdList(ScanLimit))) <= 50]_vars

\* a call with MaxBatches sub-batches has returned after one re-send: one
\* network call more than sub-batches
C39_Witness ==
    /\ Returned
    /\ Len(fetch.batches) = MaxBatches
    /\ Cardinality(FirstSends) = MaxBatches
    /\ Len(requests) = MaxBatches + 1

\* the candidates the cycle selected
Candidates(c) == Range(cycles[c].ids)

\* C40: every entity for which the cycle appends a ScanRecord, writes a
\* ResetRecord or updates the entity row was among the candidates the cycle
\* selected, whatever rows the provider returns
C40_WritesOnlyForCandidates ==
    [][/\ Len(scan_history') > Len(scan_history) =>
            scan_history'[Len(scan_history')].nation_id \in Candidates(1)
       /\ \A k \in 1..Len(reset_times') :
            (k > Len(reset_times) \/ reset_times'[k] # reset_times[k]) =>
                reset_times'[k].nation_id \in Candidates(1)
       /\ \A n \in DOMAIN nations :
            nations'[n] # nations[n] => n \in Candidates(1)]_vars

====
